---- MODULE Spec2Model ----
(***************************************************************************)
(* Model of the BTPC2 consensus and ledger core.                           *)
(*                                                                         *)
(* The repository is a set of loosely coupled components; each one is      *)
(* modelled by its own group of variables and its own actions, and has its *)
(* own specification in which the other groups stay at their initial       *)
(* value:                                                                  *)
(*   SpecUtxo       MemoryUTXOStorage   (src/src/database/utxo_set.rs)      *)
(*   SpecConsensus  ConsensusManager    (src/src/consensus/mod.rs)          *)
(*   SpecChain      QuantumResistantBlockchain (src/src/blockchain/chain.rs)*)
(*   SpecDifficulty DifficultyManager   (src/src/consensus/difficulty.rs)   *)
(*   SpecSync, SpecSyncFair, SpecDownload                                  *)
(*                  SyncManager         (src/src/network/sync.rs)           *)
(*   SpecCompact    CompactDifficulty   (src/src/consensus/difficulty.rs)   *)
(*   SpecPow        PowSolution, PowMiner, PowValidator                    *)
(*                                      (src/src/consensus/pow.rs)          *)
(*   SpecReward     calculate_block_reward (src/src/blockchain/reward.rs)   *)
(*   SpecChainReward  calculate_block_reward (src/src/blockchain/chain.rs)  *)
(*   SpecProto      wire framing        (src/src/network/protocol.rs)       *)
(*   SpecRoot       merkle::MerkleTree  (src/src/blockchain/merkle/mod.rs)  *)
(*   SpecLocks      SyncManager's locks (src/src/network/sync.rs)           *)
(*   SpecMerkle, SpecLeaf                                                  *)
(*                  MerkleTree          (src/src/crypto/merkle.rs)          *)
(***************************************************************************)
EXTENDS Integers, Sequences, FiniteSets, TLC

VARIABLES
    \* ---- MemoryUTXOStorage ----
    outputs,        \* HashMap<OutPoint, UTXOEntry>: function on the present outpoints
    utxo_call,      \* the last trait call: operation, argument, result, returned value
    adds,           \* history: number of successful add_output calls per outpoint
    spends,         \* history: number of successful spend_output calls per outpoint
    \* ---- ConsensusManager (with its DifficultyManager) ----
    current_height,         \* ConsensusManager.current_height
    block_times,            \* ConsensusManager.block_times
    current_difficulty,     \* DifficultyManager.current_difficulty
    last_adjustment_height, \* DifficultyManager.last_adjustment_height
    cm_call,                \* the last call: operation, arguments, result
    \* ---- QuantumResistantBlockchain (block acceptance) ----
    chain,          \* the stored chain: the blocks recorded in the database
    ledger,         \* the UTXO set of utxo_manager: outpoint -> value
    ab_call,        \* the last add_block call: block, result, broadcast made
    \* ---- SyncManager and SyncScheduler ----
    sync_state,         \* SyncState: status, peers_connected, blocks_downloaded, progress
    known_peers,        \* peer id -> PeerInfo
    active_peers,       \* the ids marked active
    block_queue,        \* the pending FIFO of block hashes
    requested_blocks,   \* the hashes being downloaded
    sync_pc,            \* per caller of start_sync: where it is
    sync_peers,         \* per caller of start_sync: the length of its local `peers`
    dl_pc,              \* per caller of download_block: where it is, on which hash
    sync_call,          \* the last step of a SyncManager call: caller, op, result
    \* ---- CompactDifficulty ----
    compact,        \* a difficulty, its CompactDifficulty and what that decodes to
    \* ---- PowMiner, PowSolution, PowValidator ----
    miner,          \* PowMiner: nonce_range, current_nonce, extra_nonce, hashes_computed
    pow_call,       \* the last call: operation, arguments, returned value
    \* ---- reward.rs ----
    reward_call,    \* the last two calculate_block_reward calls: height, reward
    \* ---- MerkleTree ----
    tree,           \* MerkleTree: leaves, levels, root
    merkle_call,    \* the last call: operation, arguments, returned value
    \* ---- network protocol framing ----
    proto_call,   \* the last call: operation, arguments, returned value
    \* ---- blockchain::merkle::MerkleTree ----
    root_call,   \* the MerkleTree::new call: leaves, result, root
    \* ---- SyncManager, its locks and suspension points ----
    lock_stack,    \* per task: the frames <<function, instruction>>, innermost last
    guards    \* per task: the lock guards it holds, <<lock, mode>>

utxo_vars == <<outputs, utxo_call, adds, spends>>

consensus_vars == <<current_height, block_times, current_difficulty,
                    last_adjustment_height, cm_call>>

chain_vars == <<chain, ledger, ab_call>>

sync_vars == <<sync_state, known_peers, active_peers, block_queue, requested_blocks,
               sync_pc, sync_peers, dl_pc, sync_call>>

compact_vars == <<compact>>

pow_vars == <<miner, pow_call>>

reward_vars == <<reward_call>>

merkle_vars == <<tree, merkle_call>>

proto_vars == <<proto_call>>

root_vars == <<root_call>>

lock_vars == <<lock_stack, guards>>

vars == <<utxo_vars, consensus_vars, chain_vars, sync_vars, compact_vars, pow_vars,
          reward_vars, merkle_vars,
          proto_vars,
          root_vars,
          lock_vars>>

\* What the operations of one component leave alone.
not_utxo_vars == <<consensus_vars, chain_vars, sync_vars, compact_vars, pow_vars,
                   reward_vars, merkle_vars,
                   proto_vars,
                   root_vars,
                   lock_vars>>

not_consensus_vars == <<utxo_vars, chain_vars, sync_vars, compact_vars, pow_vars,
                        reward_vars, merkle_vars,
                        proto_vars,
                        root_vars,
                        lock_vars>>

not_chain_vars == <<utxo_vars, consensus_vars, sync_vars, compact_vars, pow_vars,
                    reward_vars, merkle_vars,
                    proto_vars,
                    root_vars,
                    lock_vars>>

not_sync_vars == <<utxo_vars, consensus_vars, chain_vars, compact_vars, pow_vars,
                   reward_vars, merkle_vars,
                   proto_vars,
                   root_vars,
                   lock_vars>>

not_compact_vars == <<utxo_vars, consensus_vars, chain_vars, sync_vars, pow_vars,
                      reward_vars, merkle_vars,
                      proto_vars,
                      root_vars,
                      lock_vars>>

not_pow_vars == <<utxo_vars, consensus_vars, chain_vars, sync_vars, compact_vars,
                  reward_vars, merkle_vars,
                  proto_vars,
                  root_vars,
                  lock_vars>>

not_reward_vars == <<utxo_vars, consensus_vars, chain_vars, sync_vars, compact_vars,
                     pow_vars, merkle_vars,
                     proto_vars,
                     root_vars,
                     lock_vars>>

not_merkle_vars == <<utxo_vars, consensus_vars, chain_vars, sync_vars, compact_vars,
                     pow_vars, reward_vars,
                     proto_vars,
                     root_vars,
                     lock_vars>>

not_proto_vars == <<utxo_vars, consensus_vars, chain_vars, sync_vars, compact_vars,
                    pow_vars, reward_vars, merkle_vars,
                    root_vars,
                    lock_vars>>

not_root_vars == <<utxo_vars, consensus_vars, chain_vars, sync_vars, compact_vars,
                   pow_vars, reward_vars, merkle_vars, proto_vars, lock_vars>>

not_lock_vars == <<utxo_vars, consensus_vars, chain_vars, sync_vars, compact_vars,
                   pow_vars, reward_vars, merkle_vars, proto_vars, root_vars>>

(***************************************************************************)
(* Bounds of the model.                                                    *)
(***************************************************************************)
MaxTxHash == 1      \* transaction hashes are 1..MaxTxHash
MaxRepeat == 2      \* successful add_output calls followed per outpoint
MaxHeight == 5      \* blocks processed by one ConsensusManager
MaxDifficulty == 8  \* DifficultyParams.max_difficulty (u64::MAX by default)
AdjustmentInterval == 2 \* DifficultyParams.adjustment_interval (2016 by default)
TargetBlockTime == 2    \* DifficultyParams.target_block_time (600 by default)
U64Max == 15        \* u64::MAX, the widest target scalar, on a narrow word
HashTop == 31       \* [0xFF; 32], the largest 32-byte hash read big-endian
NowSecs == 8000     \* SystemTime::now() at the time of a validation
CompactSpan == 8    \* difficulties converted lie this close to 0 and to a power of two
MaxNonce == 3       \* PowParams.nonce_range ends here at most
MaxHashes == 6      \* hashes one PowMiner computes
MaxCandidates == 2  \* solutions handed to choose_best_solution
F64Bits == 3        \* significand bits of f64 on the narrow word (53 for 64 bits)
RewardSpan == 3     \* heights asked lie this close to 0, to the middle and to the horizon
MaxLeaves == 5      \* leaves of a MerkleTree
MaxData == 2        \* the data items hashed into leaves are 1..MaxData
MaxPingNonce == 1   \* the ping nonces offered are 0..MaxPingNonce
MaxOversize == 1    \* payloads of up to MAX_MESSAGE_SIZE + MaxOversize bytes are offered
MaxChain == 2       \* blocks stored by one QuantumResistantBlockchain
ChainDifficulty == 2    \* the difficulty held by the blockchain's DifficultyManager
MaxPeers == 7       \* peers that come to be known
MaxCallers == 1     \* direct callers of start_sync, beside the scheduler
MaxHash == 2        \* block hashes announced
MaxQueue == 3       \* hashes pending at a time
MaxDownloads == 2   \* concurrent callers of download_block

Min(a, b) == IF a <= b THEN a ELSE b

Max(a, b) == IF a >= b THEN a ELSE b

(***************************************************************************)
(* MemoryUTXOStorage                                                       *)
(***************************************************************************)
\* OutPoint { tx_hash, index }: two outputs of the first transaction, one of
\* each other
OutPoints == { o \in (1..MaxTxHash) \X {0, 1} : o[1] = 1 \/ o[2] = 0 }

\* UTXOEntry = (TxOutput, block_height, is_coinbase): the arguments of add_output
\* (values are u64, here at most U64Max)
UTXOEntries == { <<[value |-> 7, script_pubkey |-> <<81>>], 1, FALSE>>,
                 <<[value |-> 10, script_pubkey |-> <<>>], 10, TRUE>> }

\* MemoryUTXOStorage::add_output
add_output(outs, outpoint, entry) ==
    IF outpoint \in DOMAIN outs
    THEN [outputs |-> outs, result |-> "InvalidInput"]
    ELSE [outputs |-> [o \in DOMAIN outs \cup {outpoint} |->
                          IF o = outpoint THEN entry ELSE outs[o]],
          result |-> "Ok"]

\* A plausible slip: the result of HashMap::remove is ignored.
spend_output_always_ok(outs, outpoint, spending_tx_hash) ==
    [outputs |-> [o \in DOMAIN outs \ {outpoint} |-> outs[o]], result |-> "Ok"]

\* A plausible slip: the record is kept (marked, not removed) on a spend.
spend_output_keep(outs, outpoint, spending_tx_hash) ==
    IF outpoint \in DOMAIN outs
    THEN [outputs |-> outs, result |-> "Ok"]
    ELSE [outputs |-> outs, result |-> "NotFound"]

\* MemoryUTXOStorage::spend_output: HashMap::remove, Some => Ok, None => NotFound
spend_output(outs, outpoint, spending_tx_hash) ==
    IF outpoint \in DOMAIN outs
    THEN [outputs |-> [o \in DOMAIN outs \ {outpoint} |-> outs[o]], result |-> "Ok"]
    ELSE [outputs |-> outs, result |-> "NotFound"]

\* MemoryUTXOStorage::get_output: Option<(TxOutput, u64, bool)>, None is <<>>
get_output(outs, outpoint) ==
    IF outpoint \in DOMAIN outs THEN <<outs[outpoint]>> ELSE <<>>

\* MemoryUTXOStorage::get_unspent_outputs: the records, in no particular order
get_unspent_outputs(outs) ==
    { [outpoint |-> o, output |-> outs[o][1],
       block_height |-> outs[o][2], is_coinbase |-> outs[o][3]] : o \in DOMAIN outs }

\* u64::saturating_add
saturating_add(a, b) == Min(a + b, U64Max)

RECURSIVE SaturatingValue(_, _)
\* get_stats, the loop over outputs.values(): the values of the records of the
\* outpoints todo, added with saturating_add
SaturatingValue(outs, todo) ==
    IF todo = {} THEN 0
    ELSE LET o == CHOOSE x \in todo : TRUE
         IN saturating_add(SaturatingValue(outs, todo \ {o}), outs[o][1].value)

\* MemoryUTXOStorage::get_stats
get_stats(outs) ==
    [total_outputs |-> Cardinality(DOMAIN outs),
     total_value |-> SaturatingValue(outs, DOMAIN outs),
     unspent_outputs |-> Cardinality(DOMAIN outs),
     unspent_value |-> SaturatingValue(outs, DOMAIN outs)]

\* MemoryUTXOStorage::clear
clear(outs) == [o \in {} |-> 0]

NoCall == [op |-> "none", outpoint |-> <<0, 0>>, result |-> "Ok", returned |-> <<>>]

AddOutput ==
    \E o \in OutPoints, e \in UTXOEntries :
        LET r == add_output(outputs, o, e) IN
        /\ o \in DOMAIN outputs \/ adds[o] < MaxRepeat
        /\ outputs' = r.outputs
        /\ utxo_call' = [op |-> "add_output", outpoint |-> o,
                         result |-> r.result, returned |-> <<>>]
        /\ adds' = IF r.result = "Ok" THEN [adds EXCEPT ![o] = @ + 1] ELSE adds
        /\ UNCHANGED <<spends, not_utxo_vars>>

SpendOutput ==
    \E o \in OutPoints, h \in 1..MaxTxHash :
        LET r == spend_output(outputs, o, h) IN
        /\ outputs' = r.outputs
        /\ utxo_call' = [op |-> "spend_output", outpoint |-> o,
                         result |-> r.result, returned |-> <<>>]
        /\ spends' = IF r.result = "Ok" THEN [spends EXCEPT ![o] = Min(@ + 1, MaxRepeat)]
                     ELSE spends
        /\ UNCHANGED <<adds, not_utxo_vars>>

GetOutput ==
    \E o \in OutPoints :
        /\ utxo_call' = [op |-> "get_output", outpoint |-> o,
                         result |-> "Ok", returned |-> get_output(outputs, o)]
        /\ UNCHANGED <<outputs, adds, spends, not_utxo_vars>>

GetStats ==
    /\ utxo_call' = [op |-> "get_stats", outpoint |-> <<0, 0>>,
                     result |-> "Ok", returned |-> <<get_stats(outputs)>>]
    /\ UNCHANGED <<outputs, adds, spends, not_utxo_vars>>

Clear ==
    /\ outputs' = clear(outputs)
    /\ utxo_call' = [op |-> "clear", outpoint |-> <<0, 0>>,
                     result |-> "Ok", returned |-> <<>>]
    /\ UNCHANGED <<adds, spends, not_utxo_vars>>

UtxoNext == AddOutput \/ SpendOutput \/ GetOutput \/ GetStats \/ Clear

(***************************************************************************)
(* DifficultyManager                                                       *)
(***************************************************************************)
\* DifficultyParams::default().min_difficulty
MinDifficulty == 1

RECURSIVE SumSeq(_)
\* Iterator::sum over a slice of u64
SumSeq(s) == IF s = <<>> THEN 0 ELSE Head(s) + SumSeq(Tail(s))

\* The triples (c, e, a), c, e <= 16 and a <= 128, for which the f64 product
\* c * (e / a) falls just below the integer c * e / a.
F64RoundsDown == { <<11, 15, 11>>, <<13, 15, 13>> }

\* (c as f64 * (e as f64 / a as f64)) as u64, for a > 0: the quotient is rounded
\* to f64, the product is rounded again and the cast truncates.
F64Scale(c, e, a) ==
    IF <<c, e, a>> \in F64RoundsDown THEN (c * e) \div a - 1 ELSE (c * e) \div a

\* A plausible slip: the samples are counted before the height is looked at
adjust_difficulty_samples_first(dm, height, previous_block_times) ==
    IF Len(previous_block_times) < AdjustmentInterval
    THEN [dm |-> dm, result |-> "InsufficientData", value |-> 0]
    ELSE IF height < dm.last_adjustment_height + AdjustmentInterval
    THEN [dm |-> dm, result |-> "Ok", value |-> dm.current_difficulty]
    ELSE LET actual_time == SumSeq(previous_block_times)
             expected_time == TargetBlockTime * AdjustmentInterval
             new_difficulty == IF actual_time = 0
                               THEN dm.current_difficulty
                               ELSE F64Scale(dm.current_difficulty, expected_time,
                                             actual_time)
             bounded == Min(Max(new_difficulty, MinDifficulty), MaxDifficulty)
         IN [dm |-> [current_difficulty |-> bounded,
                     last_adjustment_height |-> height],
             result |-> "Ok", value |-> bounded]

\* A plausible slip: too few samples are answered with the current difficulty
adjust_difficulty_lenient(dm, height, previous_block_times) ==
    IF \/ height < dm.last_adjustment_height + AdjustmentInterval
       \/ Len(previous_block_times) < AdjustmentInterval
    THEN [dm |-> dm, result |-> "Ok", value |-> dm.current_difficulty]
    ELSE LET actual_time == SumSeq(previous_block_times)
             expected_time == TargetBlockTime * AdjustmentInterval
             new_difficulty == IF actual_time = 0
                               THEN dm.current_difficulty
                               ELSE F64Scale(dm.current_difficulty, expected_time,
                                             actual_time)
             bounded == Min(Max(new_difficulty, MinDifficulty), MaxDifficulty)
         IN [dm |-> [current_difficulty |-> bounded,
                     last_adjustment_height |-> height],
             result |-> "Ok", value |-> bounded]

\* DifficultyManager::adjust_difficulty on a manager dm. The Err(String) of too
\* few samples is the result "InsufficientData".
adjust_difficulty(dm, height, previous_block_times) ==
    IF height < dm.last_adjustment_height + AdjustmentInterval
    THEN [dm |-> dm, result |-> "Ok", value |-> dm.current_difficulty]
    ELSE IF Len(previous_block_times) < AdjustmentInterval
    THEN [dm |-> dm, result |-> "InsufficientData", value |-> 0]
    ELSE LET actual_time == SumSeq(previous_block_times)
             expected_time == TargetBlockTime * AdjustmentInterval
             new_difficulty == IF actual_time = 0
                               THEN dm.current_difficulty
                               ELSE F64Scale(dm.current_difficulty, expected_time,
                                             actual_time)
             bounded == Min(Max(new_difficulty, MinDifficulty), MaxDifficulty)
         IN [dm |-> [current_difficulty |-> bounded,
                     last_adjustment_height |-> height],
             result |-> "Ok", value |-> bounded]

\* DifficultyManager::difficulty_to_target: (u64::MAX as f64 / d as f64) as u64 in
\* the low bytes of a 32-byte big-endian buffer. u64::MAX as f64 is 2^64 and the
\* cast back saturates at u64::MAX.
difficulty_to_target(difficulty) ==
    IF difficulty = 0 THEN HashTop
    ELSE Min((U64Max + 1) \div difficulty, U64Max)

\* DifficultyManager::meets_difficulty: byte arrays of one length compare as
\* big-endian integers
meets_difficulty(hash, target) == hash <= target

(***************************************************************************)
(* PowSolution, PowValidator                                               *)
(***************************************************************************)
\* PowSolution::compute_hash: double SHA-256 of header || nonce || extra_nonce?,
\* an arbitrary fixed function into the hash space. None is <<>>, Some(x) is <<x>>.
compute_hash(block_header, nonce, extra_nonce) ==
    (11 * block_header + 7 * nonce
       + (IF extra_nonce = <<>> THEN 0 ELSE 3 + 5 * extra_nonce[1])) % (HashTop + 1)

\* A plausible slip: only the target test, the hash is not recomputed.
is_valid_target_only(solution, block_header, target) ==
    meets_difficulty(solution.hash, target)

\* PowSolution::is_valid
is_valid(solution, block_header, target) ==
    /\ meets_difficulty(solution.hash, target)
    /\ compute_hash(block_header, solution.nonce, solution.extra_nonce) = solution.hash

\* PowValidator::validate
validate(solution, block_header, target) == is_valid(solution, block_header, target)

\* ConsensusConfig::default().max_future_block_time
max_future_block_time == 7200

\* PowValidator::validate_timestamp: current_time - solution.timestamp <= max_age
\* in u64. For a timestamp after current_time the subtraction overflows: a panic
\* with overflow checks, a wrapped (huge) difference without.
validate_timestamp(solution, max_age, current_time) ==
    IF solution.timestamp > current_time THEN {"Panic", "FALSE"}
    ELSE IF current_time - solution.timestamp <= max_age THEN {"TRUE"}
    ELSE {"FALSE"}

(***************************************************************************)
(* ConsensusManager                                                        *)
(***************************************************************************)
\* The block times (seconds) a caller passes to process_block.
BlockTimes == {0, 1, 2 * TargetBlockTime}

Headers == {1}

NoSolution == [nonce |-> 0, hash |-> 0, difficulty |-> 0, timestamp |-> 0,
               extra_nonce |-> <<>>]

\* PowSolution values offered for validation: a mined solution without and
\* with extra nonce and one whose hash was replaced, each with any declared
\* difficulty and a timestamp around the accepted age.
Solutions ==
    { [nonce |-> m[1], hash |-> m[3], difficulty |-> d, timestamp |-> t,
       extra_nonce |-> m[2]] :
        m \in { <<0, <<>>, compute_hash(1, 0, <<>>)>>,
                <<1, <<0>>, compute_hash(1, 1, <<0>>)>>,
                <<0, <<>>, 0>> },
        d \in {0, 1, MaxDifficulty},
        t \in {NowSecs - max_future_block_time - 1, NowSecs, NowSecs + 1} }

\* A plausible slip: only a height that does not grow is refused.
height_not_consecutive_gaps(cm, block_height) == block_height <= cm.current_height

\* ConsensusManager::process_block, its guard: block_height != current_height + 1
height_not_consecutive(cm, block_height) == block_height # cm.current_height + 1

\* ConsensusManager::process_block on a manager cm
process_block(cm, block_time, block_height) ==
    IF height_not_consecutive(cm, block_height)
    THEN [cm |-> cm, result |-> "HeightNotConsecutive", value |-> 0]
    ELSE LET times == Append(cm.block_times, block_time)
             dm == [current_difficulty |-> cm.current_difficulty,
                    last_adjustment_height |-> cm.last_adjustment_height]
             pushed == [cm EXCEPT !.block_times = times,
                                  !.current_height = block_height]
         IN IF block_height % AdjustmentInterval = 0
            THEN LET a == adjust_difficulty(dm, block_height, times)
                     kept == IF Len(times) > AdjustmentInterval
                             THEN SubSeq(times, Len(times) - AdjustmentInterval + 1,
                                         Len(times))
                             ELSE times
                 IN IF a.result # "Ok"
                    THEN [cm |-> pushed, result |-> a.result, value |-> 0]
                    ELSE [cm |-> [current_height |-> block_height,
                                  block_times |-> kept,
                                  current_difficulty |-> a.dm.current_difficulty,
                                  last_adjustment_height |->
                                      a.dm.last_adjustment_height],
                          result |-> "Ok", value |-> a.value]
            ELSE [cm |-> pushed, result |-> "Ok", value |-> cm.current_difficulty]

\* ConsensusManager::validate_block_pow: the possible results
validate_block_pow(cm, solution, block_header, current_time) ==
    LET target == difficulty_to_target(solution.difficulty) IN
    IF ~validate(solution, block_header, target) THEN {"InvalidPow"}
    ELSE { IF v = "TRUE" THEN "Ok"
           ELSE IF v = "FALSE" THEN "TimestampTooFar" ELSE v :
             v \in validate_timestamp(solution, max_future_block_time, current_time) }

\* ConsensusManager::get_current_target
get_current_target(cm) == difficulty_to_target(cm.current_difficulty)

\* The ConsensusManager as one value
Manager == [current_height |-> current_height, block_times |-> block_times,
            current_difficulty |-> current_difficulty,
            last_adjustment_height |-> last_adjustment_height]

NoCmCall == [op |-> "none", block_time |-> 0, block_height |-> 0, samples |-> 0,
             solution |-> NoSolution, result |-> "Ok", value |-> 0]

ProcessBlock ==
    \E block_time \in BlockTimes,
       block_height \in {current_height, current_height + 1, current_height + 2} :
        LET r == process_block(Manager, block_time, block_height) IN
        /\ current_height < MaxHeight
        /\ current_height' = r.cm.current_height
        /\ block_times' = r.cm.block_times
        /\ current_difficulty' = r.cm.current_difficulty
        /\ last_adjustment_height' = r.cm.last_adjustment_height
        /\ cm_call' = [NoCmCall EXCEPT !.op = "process_block",
                                       !.block_time = block_time,
                                       !.block_height = block_height,
                                       !.result = r.result, !.value = r.value]
        /\ UNCHANGED not_consensus_vars

ValidateBlockPow ==
    \E solution \in Solutions, block_header \in Headers :
        \E res \in validate_block_pow(Manager, solution, block_header, NowSecs) :
            /\ cm_call' = [NoCmCall EXCEPT !.op = "validate_block_pow",
                                           !.solution = solution, !.result = res]
            /\ UNCHANGED <<current_height, block_times, current_difficulty,
                           last_adjustment_height, not_consensus_vars>>

ConsensusNext == ProcessBlock \/ ValidateBlockPow

\* The slices of block times handed to adjust_difficulty: none, one sample short
\* of the interval, or the interval
RECURSIVE TimeSlices(_)
TimeSlices(n) ==
    IF n = 0 THEN { <<>> }
    ELSE { Append(s, t) : s \in TimeSlices(n - 1), t \in BlockTimes }

\* DifficultyManager::adjust_difficulty called directly on the manager
AdjustDifficulty ==
    \E height \in 0..MaxHeight,
       times \in TimeSlices(0) \cup TimeSlices(AdjustmentInterval - 1)
                   \cup TimeSlices(AdjustmentInterval) :
      \E r \in {adjust_difficulty([current_difficulty |-> current_difficulty,
                                   last_adjustment_height |-> last_adjustment_height],
                                  height, times)} :
        /\ current_difficulty' = r.dm.current_difficulty
        /\ last_adjustment_height' = r.dm.last_adjustment_height
        /\ cm_call' = [NoCmCall EXCEPT !.op = "adjust_difficulty",
                                       !.block_height = height,
                                       !.samples = Len(times),
                                       !.result = r.result, !.value = r.value]
        /\ UNCHANGED <<current_height, block_times, not_consensus_vars>>

DifficultyNext == AdjustDifficulty

(***************************************************************************)
(* Amounts in base units. The rewards exceed 2^31, so an amount is a pair   *)
(* <<hi, lo>> standing for hi * 10^4 + lo with 0 <= lo < 10^4.               *)
(***************************************************************************)
AmountBase == 10 ^ 4

AmountNorm(hi, lo) == <<hi + lo \div AmountBase, lo % AmountBase>>

Amount(n) == AmountNorm(0, n)

AmountAdd(a, b) == AmountNorm(a[1] + b[1], a[2] + b[2])

AmountSub(a, b) == AmountNorm(a[1] - b[1], a[2] - b[2])

\* a * k for a factor k below 2^31 / 10^4
AmountMul(a, k) == AmountNorm(a[1] * k, a[2] * k)

\* a / d rounded down, for a divisor d below 2^31 / 10^4
AmountDiv(a, d) == <<a[1] \div d, ((a[1] % d) * AmountBase + a[2]) \div d>>

AmountLe(a, b) == a[1] < b[1] \/ (a[1] = b[1] /\ a[2] <= b[2])

RECURSIVE AmountSum(_)
AmountSum(s) == IF s = <<>> THEN Amount(0) ELSE AmountAdd(Head(s), AmountSum(Tail(s)))

(***************************************************************************)
(* QuantumResistantBlockchain: the block acceptance pipeline               *)
(***************************************************************************)
\* calculate_block_reward, const BLOCKS_PER_ERA
BLOCKS_PER_ERA == 210000

\* calculate_block_reward, const INITIAL_REWARD = 32_375_000_000
CHAIN_INITIAL_REWARD == <<3237500, 0>>

\* calculate_block_reward, const FINAL_ERA = 24 * 52_560 / 210_000
FINAL_ERA == (24 * 52560) \div BLOCKS_PER_ERA

\* QuantumResistantBlockchain::calculate_block_reward
chain_calculate_block_reward(height) ==
    LET era == height \div BLOCKS_PER_ERA IN
    IF era < FINAL_ERA
    THEN LET blocks_in_era == height % BLOCKS_PER_ERA
             era_reward == AmountDiv(AmountMul(CHAIN_INITIAL_REWARD, FINAL_ERA - era),
                                     FINAL_ERA)
             decay_per_block == AmountDiv(era_reward, BLOCKS_PER_ERA)
         IN AmountSub(era_reward, AmountMul(decay_per_block, blocks_in_era))
    ELSE <<5000, 0>>

\* A plausible slip: the height is not compared with the tip.
validate_block_structure_any_height(block, tip_height) ==
    IF block.transactions = <<>> THEN "InvalidStructure" ELSE "Ok"

\* validate_block_structure: a non-empty transaction list and the height of the
\* tip plus one (spec 4.5)
validate_block_structure(block, tip_height) ==
    IF block.transactions = <<>> THEN "InvalidStructure"
    ELSE IF block.height # tip_height + 1 THEN "InvalidHeight"
    ELSE "Ok"

\* difficulty_manager.current_target()
current_target == difficulty_to_target(ChainDifficulty)

\* pow.validate_proof(&block.header, target)
validate_proof(header, target) == meets_difficulty(header.pow_hash, target)

\* A plausible slip: only the first input of a transaction is verified.
validate_transactions_first_input(transactions) ==
    IF \E i \in 2..Len(transactions) :
          /\ transactions[i].inputs # <<>>
          /\ transactions[i].inputs[1].signature # "valid"
    THEN "InvalidSignature" ELSE "Ok"

\* QuantumResistantBlockchain::validate_transactions: every input of every
\* transaction after the first must carry a signature that verifies
validate_transactions(transactions) ==
    IF \E i \in 2..Len(transactions) :
          \E j \in 1..Len(transactions[i].inputs) :
              transactions[i].inputs[j].signature # "valid"
    THEN "InvalidSignature" ELSE "Ok"

\* The outpoints a transaction spends
Spent(tx) == { tx.inputs[j].outpoint : j \in 1..Len(tx.inputs) }

RECURSIVE UtxoDelta(_, _, _, _)
\* validate_utxo_changes, the walk over the transactions from index i on: every
\* input is in the snapshot and not spent earlier in the block, the outputs do
\* not exceed the inputs, the fee is inputs - outputs
UtxoDelta(transactions, i, snapshot, acc) ==
    IF i > Len(transactions) THEN acc
    ELSE LET tx == transactions[i]
             present == /\ Spent(tx) \subseteq DOMAIN snapshot
                        /\ Spent(tx) \cap acc.spent = {}
                        /\ Cardinality(Spent(tx)) = Len(tx.inputs)
         IN IF ~present THEN [acc EXCEPT !.result = "MissingInput"]
            ELSE LET in_sum == AmountSum([j \in 1..Len(tx.inputs) |->
                                             snapshot[tx.inputs[j].outpoint]])
                     out_sum == AmountSum(tx.outputs)
                 IN IF ~AmountLe(out_sum, in_sum)
                    THEN [acc EXCEPT !.result = "OutputsExceedInputs"]
                    ELSE UtxoDelta(transactions, i + 1, snapshot,
                                   [result |-> "Ok",
                                    spent |-> acc.spent \cup Spent(tx),
                                    total_fees |-> AmountAdd(acc.total_fees,
                                                             AmountSub(in_sum, out_sum))])

\* The outputs a block creates: outpoint (transaction hash, index) -> value
Created(transactions) ==
    LET keys == UNION { { <<transactions[i].hash, k - 1>> :
                            k \in 1..Len(transactions[i].outputs) } :
                        i \in 1..Len(transactions) }
        tx_of(h) == transactions[CHOOSE i \in 1..Len(transactions) :
                                    transactions[i].hash = h]
    IN [op \in keys |-> tx_of(op[1]).outputs[op[2] + 1]]

\* The UTXO set after a block: the snapshot without the outputs spent, with
\* the outputs made
UpdatedUtxos(snapshot, spent, made) ==
    [op \in (DOMAIN snapshot \ spent) \cup DOMAIN made |->
        IF op \in DOMAIN made THEN made[op] ELSE snapshot[op]]

\* The answer of validate_utxo_changes from the walk d over the transactions
UtxoChanges(transactions, snapshot, d) ==
    [result |-> d.result,
     total_fees |-> d.total_fees,
     updated_utxos |-> UpdatedUtxos(snapshot, d.spent, Created(transactions))]

\* validate_utxo_changes(&block.transactions, utxo_snapshot): (total_fees,
\* updated_utxos) or an error
validate_utxo_changes(transactions, snapshot) ==
    UtxoChanges(transactions, snapshot,
                UtxoDelta(transactions, 2, snapshot,
                          [result |-> "Ok", spent |-> {}, total_fees |-> Amount(0)]))

\* A plausible slip: only a coinbase that pays too much is refused.
validate_coinbase_at_most(coinbase, total_fees, height) ==
    IF AmountLe(AmountSum(coinbase.outputs),
                AmountAdd(chain_calculate_block_reward(height), total_fees))
    THEN "Ok" ELSE "InvalidCoinbase"

\* validate_coinbase(&block.transactions[0], total_fees, block.height): the
\* coinbase outputs sum to reward(height) + total_fees exactly (spec 4.3)
validate_coinbase(coinbase, total_fees, height) ==
    IF AmountSum(coinbase.outputs)
         = AmountAdd(chain_calculate_block_reward(height), total_fees)
    THEN "Ok" ELSE "InvalidCoinbase"

\* persist_block(block, updated_utxos): the UTXO deltas and the block are
\* written together or not at all (spec 4.5 step 6)
persist_block(bc, block, updated_utxos, storage_ok) ==
    IF storage_ok
    THEN [chain |-> Append(bc.chain, [height |-> block.height, header |-> block.header]),
          ledger |-> updated_utxos, result |-> "Ok"]
    ELSE [chain |-> bc.chain, ledger |-> bc.ledger, result |-> "DatabaseError"]

\* add_block, step 7 and the answer: the block stored as p is broadcast
broadcast_block(p, network_ok) ==
    IF p.result # "Ok"
    THEN [chain |-> p.chain, ledger |-> p.ledger, result |-> p.result,
          broadcast |-> FALSE]
    ELSE IF ~network_ok
    THEN [chain |-> p.chain, ledger |-> p.ledger, result |-> "NetworkError",
          broadcast |-> FALSE]
    ELSE [chain |-> p.chain, ledger |-> p.ledger, result |-> "Ok", broadcast |-> TRUE]

\* add_block, steps 5 to 7, with the answer u of validate_utxo_changes
add_block_checked(bc, block, u, storage_ok, network_ok) ==
    LET rejected(e) == [chain |-> bc.chain, ledger |-> bc.ledger, result |-> e,
                        broadcast |-> FALSE]
    IN IF u.result # "Ok" THEN rejected(u.result)
       ELSE IF validate_coinbase(block.transactions[1], u.total_fees, block.height) # "Ok"
       THEN rejected("InvalidCoinbase")
       ELSE broadcast_block(persist_block(bc, block, u.updated_utxos, storage_ok),
                            network_ok)

\* QuantumResistantBlockchain::add_block on a blockchain bc, with the answers
\* of the storage and of the network
add_block(bc, block, storage_ok, network_ok) ==
    LET rejected(e) == [chain |-> bc.chain, ledger |-> bc.ledger, result |-> e,
                        broadcast |-> FALSE]
    IN IF validate_block_structure(block, Len(bc.chain)) # "Ok"
       THEN rejected(validate_block_structure(block, Len(bc.chain)))
       ELSE IF ~validate_proof(block.header, current_target)
       THEN rejected("InvalidProof")
       ELSE IF validate_transactions(block.transactions) # "Ok"
       THEN rejected(validate_transactions(block.transactions))
       ELSE add_block_checked(bc, block,
                              validate_utxo_changes(block.transactions, bc.ledger),
                              storage_ok, network_ok)

\* An outpoint that no block creates
MissingOutPoint == <<0, 0>>

\* A transaction
Tx(hash, ins, outs) == [hash |-> hash, inputs |-> ins, outputs |-> outs]

TxInput(outpoint, signature) == [outpoint |-> outpoint, signature |-> signature]

\* The hash of the transaction at position i of a block of height h
TxHash(h, i) == 10 * h + i

\* An order on outpoints, to offer each pair of them once
Before(o1, o2) == o1[1] < o2[1] \/ (o1[1] = o2[1] /\ o1[2] < o2[2])

\* The non-coinbase transactions offered in a block of height h over the
\* UTXO set utxos: none; one transaction spending one outpoint with a valid
\* signature and a fee of 1 or none, with a tampered signature, or paying more
\* than its input; one spending an outpoint that does not exist; one transaction with
\* two inputs; two transactions, on two outpoints or on the same one.
Payments(h, utxos) ==
    LET live == DOMAIN utxos
        pairs == { p \in live \X live : Before(p[1], p[2]) }
        pay(i, o, sig, fee) ==
            Tx(TxHash(h, i), <<TxInput(o, sig)>>, <<AmountSub(utxos[o], Amount(fee))>>)
    IN {<<>>}
       \cup { <<pay(1, o, k[1], k[2])>> :
                 o \in live,
                 k \in { <<"valid", 1>>, <<"valid", 0>>, <<"invalid", 1>>, <<"valid", -1>> } }
       \cup { <<Tx(TxHash(h, 1), <<TxInput(MissingOutPoint, "valid")>>, <<Amount(1)>>)>> }
       \cup { <<Tx(TxHash(h, 1),
                   <<TxInput(p[1], "valid"), TxInput(p[2], sig)>>,
                   <<AmountSub(AmountAdd(utxos[p[1]], utxos[p[2]]), Amount(2))>>)>> :
                 p \in pairs, sig \in {"valid", "invalid"} }
       \cup { <<pay(1, p[1], "valid", 1), pay(2, p[2], sig, 1)>> :
                 p \in pairs, sig \in {"valid", "invalid"} }
       \cup { <<pay(1, o, "valid", 1), pay(2, o, "valid", 1)>> : o \in live }

\* The payments of Payments(h, utxos) that are in order and spend one output
SimplePayments(h, utxos) ==
    { ps \in Payments(h, utxos) :
        /\ Len(ps) <= 1
        /\ \A i \in 1..Len(ps) :
              /\ Len(ps[i].inputs) = 1
              /\ ps[i].inputs[1].signature = "valid"
              /\ ps[i].inputs[1].outpoint \in DOMAIN utxos
              /\ AmountLe(ps[i].outputs[1], utxos[ps[i].inputs[1].outpoint]) }

\* The fees of a list of payments over utxos, when all their inputs are present
PaymentFees(pays, utxos) ==
    validate_utxo_changes(<<Tx(0, <<>>, <<>>)>> \o pays, utxos).total_fees

\* The coinbase offered with the payments pays: one null input without a
\* signature, outputs summing to reward + fees + delta, in one or two outputs
Coinbase(h, pays, utxos, delta, split) ==
    LET ok == validate_utxo_changes(<<Tx(0, <<>>, <<>>)>> \o pays, utxos).result = "Ok"
        total == AmountAdd(AmountAdd(chain_calculate_block_reward(h),
                                     IF ok THEN PaymentFees(pays, utxos) ELSE Amount(0)),
                           Amount(delta))
    IN Tx(TxHash(h, 0), <<TxInput(MissingOutPoint, "invalid")>>,
          IF split THEN <<Amount(1), AmountSub(total, Amount(1))>> ELSE <<total>>)

\* A block of height h with the proof-of-work hash pow_hash, the payments pays
\* and a coinbase of reward + fees + delta
Block(h, pow_hash, delta, pays, utxos) ==
    [height |-> h, header |-> [pow_hash |-> pow_hash],
     transactions |-> <<Coinbase(h, pays, utxos, delta, FALSE)>> \o pays]

\* The blocks offered to add_block at tip height tip over the UTXO set utxos:
\* one without transactions; one whose coinbase has two outputs; every list
\* of payments under a right header and coinbase; the payments in order under
\* a coinbase of one unit too little or too much, under a height that repeats
\* the tip or leaves a gap, and under a hash above the target
Blocks(tip, utxos) ==
    { [height |-> tip + 1, header |-> [pow_hash |-> 1], transactions |-> <<>>],
      [height |-> tip + 1, header |-> [pow_hash |-> 1],
       transactions |-> <<Coinbase(tip + 1, <<>>, utxos, 0, TRUE)>>] }
    \cup { Block(tip + 1, 1, 0, pays, utxos) : pays \in Payments(tip + 1, utxos) }
    \cup { Block(f[1], f[2], f[3], pays, utxos) :
             f \in { <<tip + 1, 1, -1>>, <<tip + 1, 1, 1>>, <<tip, 1, 0>>,
                     <<tip + 2, 1, 0>>, <<tip + 1, HashTop, 0>>,
                     <<tip + 2, HashTop, 1>> },
             pays \in SimplePayments(tip + 1, utxos) }

NoBlock == [height |-> 0, header |-> [pow_hash |-> 0], transactions |-> <<>>]

\* The blockchain as one value
Blockchain == [chain |-> chain, ledger |-> ledger]

AddBlock ==
    /\ Len(chain) < MaxChain
    /\ \E block \in Blocks(Len(chain), ledger), storage_ok \in BOOLEAN :
       \E network_ok \in IF storage_ok THEN BOOLEAN ELSE {TRUE} :
       \E r \in {add_block(Blockchain, block, storage_ok, network_ok)} :
        /\ chain' = r.chain
        /\ ledger' = r.ledger
        /\ ab_call' = [block |-> block, result |-> r.result, broadcast |-> r.broadcast]
        /\ UNCHANGED not_chain_vars

ChainNext == AddBlock

(***************************************************************************)
(* SyncManager and SyncScheduler                                           *)
(***************************************************************************)
\* protocol.rs: PROTOCOL_VERSION
PROTOCOL_VERSION == 1

\* The peers that come to be known, by id. Peer 1 speaks an older protocol
\* version; the others were built by PeerInfo::new.
Peer(id) ==
    [id |-> id,
     version |-> IF id = 1 THEN PROTOCOL_VERSION - 1 ELSE PROTOCOL_VERSION,
     user_agent |-> <<id>>,
     last_seen |-> NowSecs]

\* PeerInfo::is_valid
peer_is_valid(peer) ==
    peer.version >= PROTOCOL_VERSION /\ peer.user_agent # <<>> /\ peer.last_seen > 0

\* SyncManager::add_peer
add_peer(peers, peer) ==
    [id \in DOMAIN peers \cup {peer.id} |-> IF id = peer.id THEN peer ELSE peers[id]]

\* SyncManager::remove_peer, on known_peers
remove_peer(peers, peer_id) == [id \in DOMAIN peers \ {peer_id} |-> peers[id]]

\* A plausible slip: the filter on is_valid is left out.
get_best_peers_unfiltered(peers, count) ==
    { sel \in SUBSET DOMAIN peers :
        Cardinality(sel) = Min(count, Cardinality(DOMAIN peers)) }

\* SyncManager::get_best_peers: values().filter(is_valid).take(count), in the
\* order of the HashMap: every choice of min(count, valid) valid peers
get_best_peers(peers, count) ==
    LET valid == { id \in DOMAIN peers : peer_is_valid(peers[id]) }
    IN { sel \in SUBSET valid : Cardinality(sel) = Min(count, Cardinality(valid)) }

\* discover_peers: get_best_peers(5)
DiscoverCount == 5

\* The record of a step of a call: who, which operation, the answer so far
SyncCall(c, op, result) ==
    [caller |-> c, op |-> op, result |-> result, arg |-> 0, returned |-> <<>>]

\* The callers of start_sync: 0 is the SyncScheduler, the others call directly
Callers == 0..MaxCallers

\* Where a caller is when it is not inside start_sync
Outside(c) == IF c = 0 THEN "wait" ELSE "ready"

\* A plausible slip: the status is set before it is tested.
start_sync_enter_sets_first(state) ==
    IF state.status # "Idle"
    THEN [state |-> [state EXCEPT !.status = "DiscoveringPeers"],
          result |-> "AlreadySyncing"]
    ELSE [state |-> [state EXCEPT !.status = "DiscoveringPeers"], result |-> "Running"]

\* A plausible slip: the test of the status is left out.
start_sync_enter_unguarded(state) ==
    [state |-> [state EXCEPT !.status = "DiscoveringPeers"], result |-> "Running"]

\* start_sync, the block under the write lock: AlreadySyncing unless Idle,
\* else the status becomes DiscoveringPeers
start_sync_enter(state) ==
    IF state.status # "Idle"
    THEN [state |-> state, result |-> "AlreadySyncing"]
    ELSE [state |-> [state EXCEPT !.status = "DiscoveringPeers"], result |-> "Running"]

\* SyncScheduler::start, one turn of the loop: the tick, the read of the
\* status, and the decision to call start_sync
Tick ==
    /\ sync_pc[0] = "wait"
    /\ sync_state.status = "Idle"
    /\ sync_pc' = [sync_pc EXCEPT ![0] = "ready"]
    /\ sync_call' = SyncCall(0, "tick", "Running")
    /\ UNCHANGED <<sync_state, known_peers, active_peers, block_queue,
                   requested_blocks, sync_peers, dl_pc, not_sync_vars>>

\* start_sync, the entry
StartSync(c) ==
    /\ sync_pc[c] = "ready"
    /\ \E r \in {start_sync_enter(sync_state)} :
        /\ sync_state' = r.state
        /\ sync_pc' = [sync_pc EXCEPT ![c] = IF r.result = "Running" THEN "discover"
                                             ELSE Outside(c)]
        /\ sync_call' = SyncCall(c, "start_sync", r.result)
    /\ UNCHANGED <<known_peers, active_peers, block_queue, requested_blocks,
                   sync_peers, dl_pc, not_sync_vars>>

\* discover_peers: the status is set, then the sleep
DiscoverPeers(c) ==
    /\ sync_pc[c] = "discover"
    /\ sync_state' = [sync_state EXCEPT !.status = "DiscoveringPeers"]
    /\ sync_pc' = [sync_pc EXCEPT ![c] = "peers"]
    /\ sync_call' = SyncCall(c, "discover_peers", "Running")
    /\ UNCHANGED <<known_peers, active_peers, block_queue, requested_blocks,
                   sync_peers, dl_pc, not_sync_vars>>

\* discover_peers: get_best_peers(5), NoPeers when it is empty
SelectPeers(c) ==
    /\ sync_pc[c] = "peers"
    /\ \E peers \in get_best_peers(known_peers, DiscoverCount) :
        /\ sync_peers' = [sync_peers EXCEPT ![c] = Cardinality(peers)]
        /\ sync_pc' = [sync_pc EXCEPT ![c] = IF peers = {} THEN Outside(c)
                                             ELSE "connected"]
        /\ sync_call' = SyncCall(c, "get_best_peers", IF peers = {} THEN "NoPeers" ELSE "Running")
    /\ UNCHANGED <<sync_state, known_peers, active_peers, block_queue,
                   requested_blocks, dl_pc, not_sync_vars>>

\* discover_peers: peers_connected = peers.len()
SetPeersConnected(c) ==
    /\ sync_pc[c] = "connected"
    /\ sync_state' = [sync_state EXCEPT !.peers_connected = sync_peers[c]]
    /\ sync_pc' = [sync_pc EXCEPT ![c] = "fetch"]
    /\ sync_call' = SyncCall(c, "peers_connected", "Running")
    /\ UNCHANGED <<known_peers, active_peers, block_queue, requested_blocks,
                   sync_peers, dl_pc, not_sync_vars>>

\* fetch_headers: the status is set; the locator and the requests to the
\* peers change nothing
FetchHeaders(c) ==
    /\ sync_pc[c] = "fetch"
    /\ sync_state' = [sync_state EXCEPT !.status = "FetchingHeaders"]
    /\ sync_pc' = [sync_pc EXCEPT ![c] = "download"]
    /\ sync_call' = SyncCall(c, "fetch_headers", "Running")
    /\ UNCHANGED <<known_peers, active_peers, block_queue, requested_blocks,
                   sync_peers, dl_pc, not_sync_vars>>

\* download_blocks: the status is set; get_blocks_to_download returns no
\* hash, so the loop does nothing
DownloadBlocks(c) ==
    /\ sync_pc[c] = "download"
    /\ sync_state' = [sync_state EXCEPT !.status = "DownloadingBlocks"]
    /\ sync_pc' = [sync_pc EXCEPT ![c] = "complete"]
    /\ sync_call' = SyncCall(c, "download_blocks", "Running")
    /\ UNCHANGED <<known_peers, active_peers, block_queue, requested_blocks,
                   sync_peers, dl_pc, not_sync_vars>>

\* start_sync, the end: Completed, progress 100, Ok
CompleteSync(c) ==
    /\ sync_pc[c] = "complete"
    /\ sync_state' = [sync_state EXCEPT !.status = "Completed", !.progress = 100]
    /\ sync_pc' = [sync_pc EXCEPT ![c] = Outside(c)]
    /\ sync_call' = SyncCall(c, "complete", "Ok")
    /\ UNCHANGED <<known_peers, active_peers, block_queue, requested_blocks,
                   sync_peers, dl_pc, not_sync_vars>>

\* add_peer of the next peer that comes to be known
AddPeer ==
    /\ Cardinality(DOMAIN known_peers) < MaxPeers
    /\ known_peers' = add_peer(known_peers, Peer(Cardinality(DOMAIN known_peers) + 1))
    /\ sync_call' = SyncCall(0, "add_peer", "Ok")
    /\ UNCHANGED <<sync_state, active_peers, block_queue, requested_blocks,
                   sync_pc, sync_peers, dl_pc, not_sync_vars>>

\* remove_peer of the peer that came to be known last
RemovePeer ==
    /\ DOMAIN known_peers # {}
    /\ known_peers' = remove_peer(known_peers, Cardinality(DOMAIN known_peers))
    /\ active_peers' = active_peers \ {Cardinality(DOMAIN known_peers)}
    /\ sync_call' = SyncCall(0, "remove_peer", "Ok")
    /\ UNCHANGED <<sync_state, block_queue, requested_blocks,
                   sync_pc, sync_peers, dl_pc, not_sync_vars>>

\* One step of a call of start_sync by caller c
SyncStep(c) ==
    \/ StartSync(c)
    \/ DiscoverPeers(c)
    \/ SelectPeers(c)
    \/ SetPeersConnected(c)
    \/ FetchHeaders(c)
    \/ DownloadBlocks(c)
    \/ CompleteSync(c)

SyncNext == Tick \/ AddPeer \/ RemovePeer \/ \E c \in Callers : SyncStep(c)

\* SyncManager::is_block_known
is_block_known(block_hash) == FALSE

\* InvEntry { kind, hash }: the inventory messages received, of up to two entries
InvEntries == [kind : {1, 2, 3}, hash : 1..MaxHash]

InvMessages == { <<>> } \cup { <<a>> : a \in InvEntries }
                       \cup { <<a, b>> : a \in InvEntries, b \in InvEntries }

RECURSIVE handle_inv_message(_, _)
\* SyncManager::handle_inv_message on the queue: the entries of kind 2 that
\* are not known are pushed to the back, in order
handle_inv_message(queue, items) ==
    IF items = <<>> THEN queue
    ELSE handle_inv_message(
             IF Head(items).kind = 2 /\ ~is_block_known(Head(items).hash)
             THEN Append(queue, Head(items).hash) ELSE queue,
             Tail(items))

RECURSIVE PopLoop(_, _, _)
\* get_blocks_for_download, the loop: `while let Some(h) = queue.pop_front()`,
\* break when blocks.len() >= max_count, else push h
PopLoop(queue, blocks, max_count) ==
    IF queue = <<>> THEN [queue |-> queue, blocks |-> blocks]
    ELSE IF Len(blocks) >= max_count THEN [queue |-> Tail(queue), blocks |-> blocks]
    ELSE PopLoop(Tail(queue), Append(blocks, Head(queue)), max_count)

\* SyncManager::get_blocks_for_download
get_blocks_for_download(queue, max_count) == PopLoop(queue, <<>>, max_count)

\* The callers of download_block
Downloads == 1..MaxDownloads

DlIdle == [pc |-> "idle", hash |-> 0]

\* A plausible slip: the hash is inserted without the test of contains.
download_block_enter_unchecked(requested, block_hash) ==
    [requested |-> requested \cup {block_hash}, proceed |-> TRUE]

\* download_block, the block under the write lock: return when the hash is
\* requested already, else insert it
download_block_enter(requested, block_hash) ==
    IF block_hash \in requested
    THEN [requested |-> requested, proceed |-> FALSE]
    ELSE [requested |-> requested \cup {block_hash}, proceed |-> TRUE]

HandleInv ==
    \E inv \in InvMessages :
        /\ Len(handle_inv_message(block_queue, inv)) <= MaxQueue
        /\ block_queue' = handle_inv_message(block_queue, inv)
        /\ sync_call' = SyncCall(0, "handle_inv_message", "Ok")
        /\ UNCHANGED <<sync_state, known_peers, active_peers, requested_blocks,
                       sync_pc, sync_peers, dl_pc, not_sync_vars>>

GetBlocksForDownload ==
    \E max_count \in 0..MaxQueue :
      \E r \in {get_blocks_for_download(block_queue, max_count)} :
        /\ block_queue' = r.queue
        /\ sync_call' = [caller |-> 0, op |-> "get_blocks_for_download", result |-> "Ok",
                         arg |-> max_count, returned |-> r.blocks]
        /\ UNCHANGED <<sync_state, known_peers, active_peers, requested_blocks,
                       sync_pc, sync_peers, dl_pc, not_sync_vars>>

\* download_block, the entry
DownloadBlock(d) ==
    \E block_hash \in 1..MaxHash :
      \E r \in {download_block_enter(requested_blocks, block_hash)} :
        /\ dl_pc[d].pc = "idle"
        /\ requested_blocks' = r.requested
        /\ dl_pc' = [dl_pc EXCEPT ![d] = IF r.proceed
                                         THEN [pc |-> "processing", hash |-> block_hash]
                                         ELSE DlIdle]
        /\ sync_call' = [caller |-> d, op |-> "download_block",
                         result |-> IF r.proceed THEN "Running" ELSE "Ok",
                         arg |-> block_hash, returned |-> <<>>]
        /\ UNCHANGED <<sync_state, known_peers, active_peers, block_queue,
                       sync_pc, sync_peers, not_sync_vars>>

\* download_block, after the sleep: process_block, then the hash is removed
FinishDownload(d) ==
    /\ dl_pc[d].pc = "processing"
    /\ requested_blocks' = requested_blocks \ {dl_pc[d].hash}
    /\ dl_pc' = [dl_pc EXCEPT ![d] = DlIdle]
    /\ sync_call' = [caller |-> d, op |-> "process_block", result |-> "Ok",
                     arg |-> dl_pc[d].hash, returned |-> <<>>]
    /\ UNCHANGED <<sync_state, known_peers, active_peers, block_queue,
                   sync_pc, sync_peers, not_sync_vars>>

DownloadNext ==
    \/ HandleInv
    \/ GetBlocksForDownload
    \/ \E d \in Downloads : DownloadBlock(d) \/ FinishDownload(d)

\* SyncManager::new
NewSyncState ==
    [status |-> "Idle", peers_connected |-> 0, blocks_downloaded |-> 0, progress |-> 0]

(***************************************************************************)
(* Specifications: one component runs, the others rest.                    *)
(***************************************************************************)
(***************************************************************************)
(* CompactDifficulty                                                       *)
(***************************************************************************)
RECURSIVE ilog2(_)
\* u64::ilog2 of a positive value
ilog2(n) == IF n < 2 THEN 0 ELSE 1 + ilog2(n \div 2)

\* A plausible slip: the mantissa keeps its top bit and the size stays as it is.
from_difficulty_unsigned(difficulty) ==
    IF difficulty = 0 THEN 0
    ELSE LET size == ilog2(difficulty) \div 8 + 1
             shifted == IF size <= 3 THEN difficulty * 2 ^ (8 * (3 - size))
                        ELSE difficulty \div 2 ^ (8 * (size - 3))
         IN shifted + size * 2 ^ 24

\* CompactDifficulty::from_difficulty, the u32 it wraps. The shifted value is
\* below 2^24, so the cast to u32 drops nothing and `|` with size << 24 adds.
from_difficulty(difficulty) ==
    IF difficulty = 0 THEN 0
    ELSE LET size == ilog2(difficulty) \div 8 + 1
             shifted == IF size <= 3 THEN difficulty * 2 ^ (8 * (3 - size))
                        ELSE difficulty \div 2 ^ (8 * (size - 3))
         IN IF (shifted \div 2 ^ 23) % 2 = 1
            THEN shifted \div 2 ^ 8 + (size + 1) * 2 ^ 24
            ELSE shifted + size * 2 ^ 24

\* CompactDifficulty::to_difficulty of the u32 bits
to_difficulty(bits) ==
    LET exponent == (bits \div 2 ^ 24) % 2 ^ 8
        mantissa == bits % 2 ^ 24
    IN IF exponent <= 3 THEN mantissa \div 2 ^ (8 * (3 - exponent))
       ELSE mantissa * 2 ^ (8 * (exponent - 3))

\* The difficulties converted: the small ones, the values of
\* tests::test_compact_difficulty below 2^31, and the neighbours of the powers
\* of two at which the size or the top mantissa bit changes.
CompactDifficulties ==
    (0..CompactSpan) \cup {1000, 10000, 100000, 1000000}
        \cup { 2 ^ k + j : k \in {7, 8, 15, 16, 23, 24}, j \in (0 - CompactSpan)..CompactSpan }

NoCompact == [difficulty |-> 0, bits |-> <<>>, recovered |-> <<>>]

\* compact = CompactDifficulty::from_difficulty(difficulty)
FromDifficulty ==
    /\ compact.bits = <<>>
    /\ compact' = [compact EXCEPT !.bits = <<from_difficulty(compact.difficulty)>>]
    /\ UNCHANGED not_compact_vars

\* recovered = compact.to_difficulty()
ToDifficulty ==
    /\ compact.bits # <<>>
    /\ compact.recovered = <<>>
    /\ compact' = [compact EXCEPT !.recovered = <<to_difficulty(compact.bits[1])>>]
    /\ UNCHANGED not_compact_vars

CompactNext == FromDifficulty \/ ToDifficulty

(***************************************************************************)
(* PowSolution, PowMiner, PowValidator called directly                     *)
(***************************************************************************)
\* DifficultyManager::target_to_difficulty: the low 8 bytes of the target as a
\* u64, then (u64::MAX as f64 / value as f64) as u64, which saturates.
target_to_difficulty(target) ==
    LET target_value == target % (U64Max + 1)
    IN IF target_value = 0 THEN U64Max
       ELSE Min((U64Max + 1) \div target_value, U64Max)

\* PowSolution::new: the timestamp is the time of the call
PowSolution(nonce, hash, difficulty, extra_nonce) ==
    [nonce |-> nonce, hash |-> hash, difficulty |-> difficulty,
     timestamp |-> NowSecs, extra_nonce |-> extra_nonce]

\* PowMiner::new(params) with nonce_range = range
PowMiner(range) == [nonce_range |-> range, current_nonce |-> 0, extra_nonce |-> 0,
                    hashes_computed |-> 0]

NoMiner == PowMiner(<<0, 0>>)

\* PowMiner::mine, the loop from nonce on: the miner afterwards and None (<<>>)
\* or Some(solution) (<<solution>>)
RECURSIVE mine_from(_, _, _, _)
mine_from(m, block_header, target, nonce) ==
    IF nonce > m.nonce_range[2] THEN [miner |-> m, returned |-> <<>>]
    ELSE LET counted == [m EXCEPT !.current_nonce = nonce,
                                  !.hashes_computed = @ + 1]
             hash == compute_hash(block_header, nonce, <<m.extra_nonce>>)
         IN IF meets_difficulty(hash, target)
            THEN [miner |-> counted,
                  returned |-> <<PowSolution(nonce, hash, target_to_difficulty(target),
                                             <<m.extra_nonce>>)>>]
            ELSE mine_from(IF nonce = m.nonce_range[2]
                           THEN [counted EXCEPT !.extra_nonce = @ + 1,
                                                !.current_nonce = m.nonce_range[1]]
                           ELSE counted,
                           block_header, target, nonce + 1)

\* A plausible slip: the range is searched from its end.
mine_last_fit(m, block_header, target) ==
    LET fits == { n \in m.nonce_range[1]..m.nonce_range[2] :
                    meets_difficulty(compute_hash(block_header, n, <<m.extra_nonce>>),
                                     target) }
    IN IF fits = {} THEN mine_from(m, block_header, target, m.nonce_range[1])
       ELSE LET nonce == CHOOSE n \in fits : \A k \in fits : k <= n
            IN [miner |-> [m EXCEPT !.current_nonce = nonce,
                                    !.hashes_computed = @ + 1],
                returned |-> <<PowSolution(nonce,
                                           compute_hash(block_header, nonce,
                                                        <<m.extra_nonce>>),
                                           target_to_difficulty(target),
                                           <<m.extra_nonce>>)>>]

\* PowMiner::mine
mine(m, block_header, target) == mine_from(m, block_header, target, m.nonce_range[1])

\* The configured nonce ranges, an empty one (start > end) among them
NonceRanges == { <<0, MaxNonce>>, <<1, MaxNonce>>, <<1, 1>>, <<1, 0>> }

\* The optional extra nonces of a solution: None and Some(0), Some(1)
ExtraNonces == { <<>>, <<0>>, <<1>> }

\* The solutions handed to is_valid for header h: one computed from the
\* header (altered = "none") and the same with its stored hash, its nonce or
\* its extra nonce replaced. SHA-256d is taken to be collision-free: a replaced
\* nonce or extra nonce is one whose hash differs.
OfferedSolutions(h) ==
    LET genuine(n, e) == PowSolution(n, compute_hash(h, n, e), 1, e)
    IN { [solution |-> genuine(n, e), altered |-> "none"] :
           n \in 0..MaxNonce, e \in ExtraNonces }
       \cup { [solution |-> [genuine(t[1], t[2]) EXCEPT !.hash = t[3]],
               altered |-> "hash"] :
                t \in { u \in (0..MaxNonce) \X ExtraNonces \X (0..HashTop) :
                          /\ u[3] # compute_hash(h, u[1], u[2])
                          /\ \/ u[3] = 0
                             \/ u[3] = (compute_hash(h, u[1], u[2]) + 1) % (HashTop + 1) } }
       \cup { [solution |-> [genuine(t[1], t[2]) EXCEPT !.nonce = t[3]],
               altered |-> "nonce"] :
                t \in { u \in (0..MaxNonce) \X ExtraNonces \X (0..(MaxNonce + 1)) :
                          compute_hash(h, u[3], u[2]) # compute_hash(h, u[1], u[2]) } }
       \cup { [solution |-> [genuine(t[1], t[2]) EXCEPT !.extra_nonce = t[3]],
               altered |-> "extra_nonce"] :
                t \in { u \in (0..MaxNonce) \X ExtraNonces \X ExtraNonces :
                          compute_hash(h, u[1], u[3]) # compute_hash(h, u[1], u[2]) } }

\* A quotient num / den of two f64 values as the f64 nearest to it: F64Bits
\* significant bits, ties to the even significand. The values of the model
\* are scaled so that the last kept bit is at least 1.
round_f64(num, den) ==
    LET unit == 2 ^ Max(0, ilog2(num \div den) - (F64Bits - 1))
        m == num \div (den * unit)
        rem == num - m * den * unit
    IN IF 2 * rem > den * unit \/ (2 * rem = den * unit /\ m % 2 = 1)
       THEN (m + 1) * unit
       ELSE m * unit

\* `x as f64` for a u64 x
as_f64(x) == round_f64(x, 1)

\* 1.0 in the scale of the scores
ScoreOne == 2 ^ (ilog2(U64Max) + 2 + F64Bits)

\* PowSolution::score: 1.0 / self.difficulty as f64, +inf for difficulty 0
score(solution) ==
    IF solution.difficulty = 0 THEN 2 * ScoreOne
    ELSE round_f64(ScoreOne, as_f64(solution.difficulty))

\* Iterator::max_by over the rest of the slice: of equal maxima the last one
RECURSIVE max_by_score(_, _)
max_by_score(best, rest) ==
    IF rest = <<>> THEN best
    ELSE max_by_score(IF score(best) > score(Head(rest)) THEN best ELSE Head(rest),
                      Tail(rest))

\* PowValidator::choose_best_solution: None (<<>>) or Some(&solution)
choose_best_solution(solutions) ==
    IF solutions = <<>> THEN <<>>
    ELSE <<max_by_score(Head(solutions), Tail(solutions))>>

\* The candidate lists of up to n solutions, as tests::test_best_solution_selection
\* builds them: PowSolution::new(position, hash, difficulty, None)
RECURSIVE CandidateLists(_)
CandidateLists(n) ==
    IF n = 0 THEN { <<>> }
    ELSE LET shorter == CandidateLists(n - 1)
         IN shorter \cup { Append(c, PowSolution(Len(c) + 1, 0, d, <<>>)) :
                             c \in { x \in shorter : Len(x) = n - 1 },
                             d \in 0..U64Max }

NoPowCall == [op |-> "none", header |-> 0, target |-> 0, solutions |-> <<>>,
              altered |-> "none", extra_nonce |-> 0, done |-> TRUE, returned |-> <<>>]

\* The calls of is_valid and choose_best_solution about to be made
PowCalls ==
    UNION { { [NoPowCall EXCEPT !.op = "is_valid", !.header = h, !.target = target,
                                !.solutions = <<o.solution>>, !.altered = o.altered,
                                !.done = FALSE] :
                target \in 0..HashTop, o \in OfferedSolutions(h) } : h \in Headers }
    \cup { [NoPowCall EXCEPT !.op = "choose_best_solution", !.solutions = c,
                             !.done = FALSE] :
             c \in CandidateLists(MaxCandidates) }

\* solution.is_valid(block_header, target)
IsValid ==
    /\ pow_call.op = "is_valid"
    /\ ~pow_call.done
    /\ pow_call' = [pow_call EXCEPT
                      !.done = TRUE,
                      !.returned = <<is_valid(pow_call.solutions[1], pow_call.header,
                                              pow_call.target)>>]
    /\ UNCHANGED <<miner, not_pow_vars>>

\* PowValidator::choose_best_solution(&solutions)
ChooseBestSolution ==
    /\ pow_call.op = "choose_best_solution"
    /\ ~pow_call.done
    /\ pow_call' = [pow_call EXCEPT
                      !.done = TRUE,
                      !.returned = choose_best_solution(pow_call.solutions)]
    /\ UNCHANGED <<miner, not_pow_vars>>

PowNext == IsValid \/ ChooseBestSolution

\* miner.mine(block_header, target)
Mine ==
    /\ miner.hashes_computed < MaxHashes
    /\ \E h \in Headers, target \in 0..HashTop :
         \E r \in {mine(miner, h, target)} :
           /\ miner' = r.miner
           /\ pow_call' = [NoPowCall EXCEPT !.op = "mine", !.header = h,
                                            !.target = target,
                                            !.extra_nonce = miner.extra_nonce,
                                            !.returned = r.returned]
           /\ UNCHANGED not_pow_vars

MinerNext == Mine

(***************************************************************************)
(* reward.rs: the linear-decay block reward                                *)
(***************************************************************************)
BLOCKS_PER_YEAR == 52560

\* base units per BTP
COIN == 100000000

\* 32.375 BTP, in thousandths of a BTP
INITIAL_REWARD == 32375

\* 0.5 BTP, in thousandths of a BTP
FINAL_REWARD == 500

DECAY_PERIOD_YEARS == 24

DECAY_PERIOD_BLOCKS == BLOCKS_PER_YEAR * DECAY_PERIOD_YEARS

RECURSIVE Gcd(_, _)
Gcd(a, b) == IF b = 0 THEN a ELSE Gcd(b, a % b)

\* ((INITIAL_REWARD - thousandths * block_height / DECAY_PERIOD_BLOCKS)
\*   * COIN as f64) as u64 for a whole block_height: the cast rounds down, and
\* on the whole heights from 0 to past DECAY_PERIOD_BLOCKS the f64 evaluation
\* yields this exact value. The fraction is reduced first to keep the factors
\* within the word of the amounts.
linear_decay(block_height, thousandths) ==
    LET g1 == Gcd(thousandths, DECAY_PERIOD_BLOCKS)
        g2 == Gcd(COIN \div 1000, DECAY_PERIOD_BLOCKS \div g1)
        den == (DECAY_PERIOD_BLOCKS \div g1) \div g2
        num == AmountMul(AmountMul(Amount(block_height), thousandths \div g1),
                         (COIN \div 1000) \div g2)
        decayed == AmountDiv(AmountAdd(num, Amount(den - 1)), den)
    IN AmountSub(AmountMul(Amount(INITIAL_REWARD), COIN \div 1000), decayed)

\* (FINAL_REWARD * COIN as f64) as u64
min_reward == Amount(FINAL_REWARD * (COIN \div 1000))

\* A plausible slip: the decay is not stopped at the horizon.
calculate_block_reward_unclamped(block_height) ==
    linear_decay(block_height, INITIAL_REWARD - FINAL_REWARD)

\* reward.rs, calculate_block_reward for a whole block_height
calculate_block_reward(block_height) ==
    IF block_height >= DECAY_PERIOD_BLOCKS THEN min_reward
    ELSE LET reward_base_units ==
                 linear_decay(block_height, INITIAL_REWARD - FINAL_REWARD)
         IN IF AmountLe(reward_base_units, min_reward) THEN min_reward
            ELSE reward_base_units

\* The heights asked: the first blocks, the heights of
\* tests::test_calculate_block_reward and their neighbours
RewardHeights ==
    (0..RewardSpan)
      \cup { DECAY_PERIOD_BLOCKS \div 2 + j : j \in (0 - RewardSpan)..RewardSpan }
      \cup { DECAY_PERIOD_BLOCKS + j : j \in (0 - RewardSpan)..RewardSpan }
      \cup { DECAY_PERIOD_BLOCKS + 1000 }

NoRewardCall == [calls |-> 0, height |-> 0, reward |-> Amount(0),
                 prev_height |-> 0, prev_reward |-> Amount(0)]

\* calculate_block_reward(block_height as f64); the call before is kept
CalculateBlockReward ==
    \E block_height \in RewardHeights :
        /\ reward_call' = [calls |-> Min(reward_call.calls + 1, 2),
                           height |-> block_height,
                           reward |-> calculate_block_reward(block_height),
                           prev_height |-> reward_call.height,
                           prev_reward |-> reward_call.reward]
        /\ UNCHANGED not_reward_vars

RewardNext == CalculateBlockReward

\* The heights asked of the pipeline's reward: those above, and the last block
\* of the first era with the first of the second
ChainRewardHeights == RewardHeights \cup {BLOCKS_PER_ERA - 1, BLOCKS_PER_ERA}

\* QuantumResistantBlockchain::calculate_block_reward(height), as
\* validate_coinbase calls it; the call before is kept
ChainCalculateBlockReward ==
    \E height \in ChainRewardHeights :
        /\ reward_call' = [calls |-> Min(reward_call.calls + 1, 2),
                           height |-> height,
                           reward |-> chain_calculate_block_reward(height),
                           prev_height |-> reward_call.height,
                           prev_reward |-> reward_call.reward]
        /\ UNCHANGED not_reward_vars

ChainRewardNext == ChainCalculateBlockReward

(***************************************************************************)
(* MerkleTree (crypto/merkle.rs). SHA-512 is taken to be collision-free: a  *)
(* hash is the term of what was hashed.                                    *)
(***************************************************************************)
\* MerkleTree::hash_leaf: SHA-512 of "leaf:" || data
hash_leaf(data) == <<"leaf:", data>>

\* MerkleTree::hash_nodes: SHA-512 of "node:" || left || right
hash_nodes(left, right) == <<"node:", left, right>>

\* MerkleTree::new, one turn of its while loop: current_level.chunks(2), a
\* last chunk of one node hashed with itself
next_level(current_level) ==
    [i \in 1..((Len(current_level) + 1) \div 2) |->
        IF 2 * i <= Len(current_level)
        THEN hash_nodes(current_level[2 * i - 1], current_level[2 * i])
        ELSE hash_nodes(current_level[2 * i - 1], current_level[2 * i - 1])]

\* MerkleTree::new, the levels from current_level up
RECURSIVE levels_from(_)
levels_from(current_level) ==
    IF Len(current_level) > 1
    THEN <<current_level>> \o levels_from(next_level(current_level))
    ELSE <<current_level>>

\* MerkleTree::new(data) for non-empty data
MerkleTree(data) ==
    LET leaves == [i \in 1..Len(data) |-> hash_leaf(data[i])]
        levels == levels_from(leaves)
    IN [leaves |-> leaves, levels |-> levels, root |-> levels[Len(levels)][1]]

NoTree == [leaves |-> <<>>, levels |-> <<>>, root |-> <<>>]

\* A plausible slip: a node without a right sibling adds no proof entry.
proof_entry_skips_lone(current_level, current_index) ==
    IF current_index % 2 = 0
    THEN IF current_index + 1 < Len(current_level)
         THEN <<[hash |-> current_level[current_index + 2], index |-> 1]>>
         ELSE <<>>
    ELSE <<[hash |-> current_level[current_index], index |-> 0]>>

\* MerkleTree::generate_proof, the body of its loop: what is pushed for the
\* node current_index (counted from 0) of current_level
proof_entry(current_level, current_index) ==
    IF current_index % 2 = 0
    THEN IF current_index + 1 < Len(current_level)
         THEN <<[hash |-> current_level[current_index + 2], index |-> 1]>>
         ELSE <<[hash |-> current_level[current_index + 1], index |-> 0]>>
    ELSE <<[hash |-> current_level[current_index], index |-> 0]>>

\* MerkleTree::generate_proof, its loop from level (counted from 0) on
RECURSIVE proof_entries(_, _, _)
proof_entries(t, level, current_index) ==
    IF level >= Len(t.levels) - 1 THEN <<>>
    ELSE proof_entry(t.levels[level + 1], current_index)
             \o proof_entries(t, level + 1, current_index \div 2)

NoProof == [leaf_hash |-> <<>>, proof_hashes |-> <<>>, proof_indices |-> <<>>]

\* MerkleTree::generate_proof
generate_proof(t, index) ==
    IF index >= Len(t.leaves) THEN [result |-> "InvalidIndex", proof |-> NoProof]
    ELSE LET entries == proof_entries(t, 0, index)
         IN [result |-> "Ok",
             proof |-> [leaf_hash |-> t.leaves[index + 1],
                        proof_hashes |-> [i \in 1..Len(entries) |-> entries[i].hash],
                        proof_indices |-> [i \in 1..Len(entries) |-> entries[i].index]]]

\* A plausible slip: with the sibling on the left the running hash is dropped.
fold_proof_entry_left_twice(current_hash, sibling_hash, sibling_index) ==
    IF sibling_index = 0 THEN hash_nodes(sibling_hash, sibling_hash)
    ELSE hash_nodes(current_hash, sibling_hash)

\* MerkleTree::verify_proof, the body of its loop
fold_proof_entry(current_hash, sibling_hash, sibling_index) ==
    IF sibling_index = 0 THEN hash_nodes(sibling_hash, current_hash)
    ELSE hash_nodes(current_hash, sibling_hash)

\* MerkleTree::verify_proof, its loop from entry i on
RECURSIVE fold_proof(_, _, _)
fold_proof(proof, i, current_hash) ==
    IF i > Len(proof.proof_hashes) THEN current_hash
    ELSE fold_proof(proof, i + 1,
                    fold_proof_entry(current_hash, proof.proof_hashes[i],
                                     proof.proof_indices[i]))

\* MerkleTree::verify_proof
verify_proof(proof, root) == fold_proof(proof, 1, proof.leaf_hash) = root

\* MerkleTree::verify_leaf: the hash of leaf_data is computed and not used
verify_leaf(t, leaf_data, index) ==
    LET r == generate_proof(t, index)
    IN IF r.result = "Ok" THEN verify_proof(r.proof, t.root) ELSE FALSE

\* The data a tree is built from: 1 to MaxLeaves items, equal items allowed
RECURSIVE DataSeqs(_)
DataSeqs(n) ==
    IF n = 0 THEN { <<>> }
    ELSE LET shorter == DataSeqs(n - 1)
         IN shorter \cup { Append(d, x) : d \in { y \in shorter : Len(y) = n - 1 },
                                          x \in 1..MaxData }

\* The proofs that differ from proof in one entry, the leaf hash (entry 0) or
\* one sibling hash: the entry becomes a hash outside the tree, the root of
\* the tree or the proof's leaf hash.
AlteredProofs(t, proof) ==
    LET values == {hash_leaf(0), t.root, proof.leaf_hash}
    IN { [proof EXCEPT !.leaf_hash = v] : v \in values \ {proof.leaf_hash} }
       \cup { [proof EXCEPT !.proof_hashes[c[1]] = c[2]] :
                c \in { x \in (1..Len(proof.proof_hashes)) \X values :
                          x[2] # proof.proof_hashes[x[1]] } }

NoMerkleCall == [op |-> "none", index |-> 0, leaf_data |-> 0, result |-> "Ok",
                 proof |-> NoProof, altered |-> FALSE, returned |-> <<>>]

\* tree.generate_proof(index)
GenerateProof ==
    \E index \in 0..MaxLeaves :
      \E r \in {generate_proof(tree, index)} :
        /\ merkle_call' = [NoMerkleCall EXCEPT !.op = "generate_proof",
                                               !.index = index,
                                               !.result = r.result,
                                               !.proof = r.proof]
        /\ UNCHANGED <<tree, not_merkle_vars>>

\* MerkleTree::verify_proof(&proof, tree.root()) on the proof just generated,
\* as it is or with one entry changed
VerifyProof ==
    /\ merkle_call.op = "generate_proof"
    /\ merkle_call.result = "Ok"
    /\ \E proof \in {merkle_call.proof} \cup AlteredProofs(tree, merkle_call.proof) :
         merkle_call' = [merkle_call EXCEPT
                           !.op = "verify_proof",
                           !.proof = proof,
                           !.altered = (proof # merkle_call.proof),
                           !.returned = <<verify_proof(proof, tree.root)>>]
    /\ UNCHANGED <<tree, not_merkle_vars>>

\* tree.verify_leaf(leaf_data, index), leaf_data 0 being in no tree
VerifyLeaf ==
    \E leaf_data \in 0..MaxData, index \in 0..MaxLeaves :
        /\ merkle_call' = [NoMerkleCall EXCEPT
                             !.op = "verify_leaf",
                             !.index = index,
                             !.leaf_data = leaf_data,
                             !.returned = <<verify_leaf(tree, leaf_data, index)>>]
        /\ UNCHANGED <<tree, not_merkle_vars>>

MerkleNext == GenerateProof \/ VerifyProof

LeafNext == VerifyLeaf

(***************************************************************************)
(* Wire framing (src/src/network/protocol.rs).                             *)
(*                                                                         *)
(* A payload is a byte string; the model keeps its length and what the     *)
(* bytes are: the bincode encoding of a NetworkMessage, or bytes that      *)
(* encode none.  sha512_hash is kept symbolic: two payloads have the same  *)
(* hash exactly when they are the same bytes.                              *)
(***************************************************************************)
MAX_MESSAGE_SIZE == 2 * 1024 * 1024

CommandLen == 12

\* 0xD9B4BEF9, as its two 16-bit halves
MAGIC == <<55732, 48889>>

\* NetworkMessage: Ping(PingMessage { nonce }) and Block(block), the block
\* named by the number of bytes of its bincode encoding
Ping(nonce) == [kind |-> "Ping", nonce |-> nonce, size |-> 12]

BlockMessage(size) == [kind |-> "Block", nonce |-> 0, size |-> size]

PayloadSizes == (MAX_MESSAGE_SIZE - 1)..(MAX_MESSAGE_SIZE + MaxOversize)

NetworkMessages ==
    {Ping(n) : n \in 0..MaxPingNonce} \cup {BlockMessage(n) : n \in PayloadSizes}

\* NetworkMessage::to_bytes
to_bytes(message) == [len |-> message.size, bytes |-> <<"bincode", message>>]

\* bytes that are the encoding of no NetworkMessage
Garbage(len) == [len |-> len, bytes |-> <<"garbage">>]

Payloads ==
    {to_bytes(m) : m \in NetworkMessages}
        \cup {Garbage(n) : n \in {0} \cup PayloadSizes}

\* NetworkMessage::from_bytes
from_bytes(payload) ==
    IF \E m \in NetworkMessages : to_bytes(m) = payload
    THEN [result |-> "Ok",
          message |-> <<CHOOSE m \in NetworkMessages : to_bytes(m) = payload>>]
    ELSE [result |-> "SerializationError", message |-> <<>>]

sha512_hash(payload) == <<"sha512", payload>>

\* the command names offered: empty, "ping", CommandLen bytes and one more
Commands ==
    {<<>>, <<112, 105, 110, 103>>}
        \cup {[i \in 1..n |-> 97] : n \in CommandLen..(CommandLen + 1)}

\* MessageHeader::new
MessageHeader_new(command, payload) ==
    IF payload.len > MAX_MESSAGE_SIZE
    THEN [result |-> "InvalidMessage", header |-> <<>>]
    ELSE IF Len(command) > CommandLen
    THEN [result |-> "InvalidMessage", header |-> <<>>]
    ELSE [result |-> "Ok",
          header |-> <<[magic |-> MAGIC,
                        command |-> [i \in 1..CommandLen |->
                                       IF i <= Len(command) THEN command[i] ELSE 0],
                        length |-> payload.len,   \* as u32: exact, len <= MAX_MESSAGE_SIZE
                        checksum |-> sha512_hash(payload)]>>]

\* MessageHeader::verify_checksum
verify_checksum(header, payload) == sha512_hash(payload) = header.checksum

\* FramedMessage::new
FramedMessage_new(command, message) ==
    LET payload == to_bytes(message)
        h == MessageHeader_new(command, payload)
    IN IF h.result # "Ok"
       THEN [result |-> h.result, framed |-> <<>>]
       ELSE [result |-> "Ok",
             framed |-> <<[header |-> h.header[1], payload |-> payload]>>]

\* parse_message without the size check
parse_message_unbounded(header, payload) ==
    IF ~verify_checksum(header, payload)
    THEN [result |-> "InvalidMessage", message |-> <<>>, decoded |-> FALSE]
    ELSE LET d == from_bytes(payload)
         IN [result |-> d.result, message |-> d.message, decoded |-> TRUE]

\* FramedMessage::parse_message; decoded tells whether from_bytes was called
parse_message(header, payload) ==
    IF ~verify_checksum(header, payload)
    THEN [result |-> "InvalidMessage", message |-> <<>>, decoded |-> FALSE]
    ELSE IF payload.len > MAX_MESSAGE_SIZE
    THEN [result |-> "InvalidMessage", message |-> <<>>, decoded |-> FALSE]
    ELSE LET d == from_bytes(payload)
         IN [result |-> d.result, message |-> d.message, decoded |-> TRUE]

\* The headers a peer can send: the fields are public, so any checksum and
\* length can be put in one.
Headers_on_wire ==
    {[magic |-> MAGIC, command |-> [i \in 1..CommandLen |-> 0],
      length |-> p.len, checksum |-> sha512_hash(p)] : p \in Payloads}

NoHeader == [magic |-> 0, command |-> <<>>, length |-> 0, checksum |-> <<>>]

NoProtoCall == [op |-> "none", command |-> <<>>, header |-> NoHeader,
                payload |-> Garbage(0), message |-> <<>>, done |-> FALSE,
                result |-> "Ok", returned |-> <<>>, decoded |-> FALSE]

\* The calls made: each is drawn once and then carried out.
ProtoCalls ==
    {[NoProtoCall EXCEPT !.op = "MessageHeader::new", !.command = c[1],
                         !.payload = c[2]] : c \in Commands \X Payloads}
    \cup {[NoProtoCall EXCEPT !.op = "FramedMessage::new", !.command = c[1],
                              !.message = <<c[2]>>] : c \in Commands \X NetworkMessages}
    \cup {[NoProtoCall EXCEPT !.op = "parse_message", !.header = c[1],
                              !.payload = c[2]] : c \in Headers_on_wire \X Payloads}

\* MessageHeader::new(command, payload)
HeaderNew ==
    /\ proto_call.op = "MessageHeader::new"
    /\ ~proto_call.done
    /\ \E r \in {MessageHeader_new(proto_call.command, proto_call.payload)} :
         proto_call' = [proto_call EXCEPT !.done = TRUE, !.result = r.result,
                                          !.returned = r.header]
    /\ UNCHANGED not_proto_vars

\* FramedMessage::new(command, message)
FramedNew ==
    /\ proto_call.op = "FramedMessage::new"
    /\ ~proto_call.done
    /\ \E r \in {FramedMessage_new(proto_call.command, proto_call.message[1])} :
         proto_call' = [proto_call EXCEPT !.done = TRUE, !.result = r.result,
                                          !.returned = r.framed]
    /\ UNCHANGED not_proto_vars

\* FramedMessage::parse_message(header, payload)
ParseMessage ==
    /\ proto_call.op = "parse_message"
    /\ ~proto_call.done
    /\ \E r \in {parse_message(proto_call.header, proto_call.payload)} :
         proto_call' = [proto_call EXCEPT !.done = TRUE, !.result = r.result,
                                          !.returned = r.message,
                                          !.decoded = r.decoded]
    /\ UNCHANGED not_proto_vars

ProtoNext == HeaderNew \/ FramedNew \/ ParseMessage

(***************************************************************************)
(* blockchain::merkle::MerkleTree (src/src/blockchain/merkle/mod.rs): the  *)
(* root over pre-hashed 64-byte leaves.  A leaf is an opaque value; the    *)
(* 128-byte buffer left || right is the pair <<left, right>>.              *)
(***************************************************************************)
\* a pre-hashed leaf: the 64 bytes the caller computed from item d
PreHashed(d) == <<"leaf", d>>

\* the leaf lists handed to new: 0 to MaxLeaves leaves, equal leaves allowed
LeafLists == {[i \in 1..Len(d) |-> PreHashed(d[i])] : d \in DataSeqs(MaxLeaves)}

\* the buffer of one pair and its Sha512::digest
parent_of(left, right) == sha512_hash(<<left, right>>)

\* A plausible slip: the last node of an odd level is carried up as it is.
pair_level_carry_last(level) ==
    [i \in 1..((Len(level) + 1) \div 2) |->
        IF 2 * i <= Len(level) THEN parent_of(level[2 * i - 1], level[2 * i])
        ELSE level[2 * i - 1]]

\* One turn of the while loop of new: the last node pushed again when the
\* count is odd, then one parent per chunk of two
pair_level(level) ==
    LET padded == IF Len(level) % 2 = 1 THEN Append(level, level[Len(level)])
                  ELSE level
    IN [i \in 1..(Len(padded) \div 2) |-> parent_of(padded[2 * i - 1], padded[2 * i])]

\* The while loop of new: reduce until one node remains
RECURSIVE reduce_level(_)
reduce_level(level) ==
    IF Len(level) > 1 THEN reduce_level(pair_level(level)) ELSE level[1]

\* blockchain::merkle::MerkleTree::new(leaves) and root()
MerkleTree_new(leaves) ==
    IF leaves = <<>> THEN [result |-> "Empty", root |-> <<>>]
    ELSE IF Len(leaves) = 1 THEN [result |-> "Ok", root |-> <<leaves[1]>>]
    ELSE [result |-> "Ok", root |-> <<reduce_level(leaves)>>]

NoRootCall == [leaves |-> <<>>, done |-> FALSE, result |-> "Ok", root |-> <<>>]

\* MerkleTree::new(&leaves)
MerkleTreeNew ==
    /\ ~root_call.done
    /\ \E r \in {MerkleTree_new(root_call.leaves)} :
         root_call' = [root_call EXCEPT !.done = TRUE, !.result = r.result,
                                        !.root = r.root]
    /\ UNCHANGED not_root_vars

RootNext == MerkleTreeNew

(***************************************************************************)
(* SyncManager, its locks and suspension points (src/src/network/sync.rs). *)
(*                                                                         *)
(* Each function is the list of what it does to locks and where it         *)
(* suspends: a guard is acquired where the source calls read() or write()  *)
(* and released where the guard goes out of scope (the end of its block,   *)
(* of its statement for a temporary, or a return inside its scope).  What  *)
(* the code computes in between decides the branches, which are taken      *)
(* either way here.                                                        *)
(***************************************************************************)
Acq(lock, mode) == [op |-> "acquire", lock |-> lock, mode |-> mode, to |-> {}]

Rel(lock) == [op |-> "release", lock |-> lock, mode |-> "", to |-> {}]

\* `.await` on a timer: the task is suspended
Await(what) == [op |-> "await", lock |-> what, mode |-> "", to |-> {}]

\* a call of a function of this file (`.await`ed when the function is async)
CallOf(function) == [op |-> "call", lock |-> function, mode |-> "", to |-> {}]

\* the next instruction is one of these
Branch(to) == [op |-> "branch", lock |-> "", mode |-> "", to |-> to]

Ret == [op |-> "return", lock |-> "", mode |-> "", to |-> {}]

\* start_sync: the block under state.write(), the three phases with `?`, the
\* final update_state
start_sync_code ==
    << Acq("state", "write"), Branch({3, 5}),
       Rel("state"), Ret,                           \* return Err(AlreadySyncing)
       Rel("state"),                                \* the end of the block
       CallOf("discover_peers"), Branch({8, 9}), Ret,
       CallOf("fetch_headers"), Branch({11, 12}), Ret,
       CallOf("download_blocks"), Branch({14, 15}), Ret,
       CallOf("update_state"), Ret >>

discover_peers_code ==
    << CallOf("update_state"), Await("sleep"), CallOf("get_best_peers"),
       Branch({5, 6}), Ret,                         \* return Err(NoPeers)
       CallOf("update_state"), Ret >>

\* fetch_headers: `for peer in peers` is instructions 6 to 8
fetch_headers_code ==
    << CallOf("update_state"), CallOf("create_block_locator"), Branch({4, 5}), Ret,
       CallOf("get_best_peers"),
       Branch({7, 9}), CallOf("request_headers"), Branch({6}),
       Ret >>

\* download_blocks: `for block_hash in blocks_to_download` is instructions 5
\* to 9, `continue` on an error of download_block
download_blocks_code ==
    << CallOf("update_state"), CallOf("get_blocks_to_download"), Branch({4, 5}), Ret,
       Branch({6, 10}), CallOf("download_block"), Branch({5, 8}),
       CallOf("update_state"), Branch({5}),
       Ret >>

\* A plausible slip: no block around the guard, which then lives to the end of
\* the function.
download_block_code_guard_kept ==
    << Acq("requested_blocks", "write"), Branch({3, 5}),
       Rel("requested_blocks"), Ret,
       Await("sleep"),
       CallOf("process_block"), Branch({8, 10}),
       Rel("requested_blocks"), Ret,
       Rel("requested_blocks"), Ret >>

\* download_block: the block under requested_blocks.write(), the sleep,
\* process_block with `?`, the removal under a temporary guard
download_block_code ==
    << Acq("requested_blocks", "write"), Branch({3, 5}),
       Rel("requested_blocks"), Ret,                \* return Ok(()): requested already
       Rel("requested_blocks"),                     \* the end of the block
       Await("sleep"),
       CallOf("process_block"), Branch({9, 10}), Ret,
       Acq("requested_blocks", "write"), Rel("requested_blocks"), Ret >>

\* SyncScheduler::start: the tick, the read of the status, start_sync when Idle
scheduler_start_code ==
    << Await("tick"), CallOf("get_state"), Branch({4, 1}),
       CallOf("start_sync"), Branch({1}) >>

Code ==
    [ start_sync |-> start_sync_code,
      discover_peers |-> discover_peers_code,
      fetch_headers |-> fetch_headers_code,
      download_blocks |-> download_blocks_code,
      download_block |-> download_block_code,
      scheduler_start |-> scheduler_start_code,
      update_state |-> << Acq("state", "write"), Rel("state"), Ret >>,
      get_state |-> << Acq("state", "read"), Rel("state"), Ret >>,
      get_best_peers |-> << Acq("known_peers", "read"), Rel("known_peers"), Ret >>,
      request_headers |-> << Await("sleep"), Ret >>,
      create_block_locator |-> << Ret >>,
      get_blocks_to_download |-> << Ret >>,
      process_block |-> << Ret >> ]

\* The tasks: the scheduler, a direct caller of start_sync and a caller of
\* download_block, each calling its function again when it has returned
Tasks == {"scheduler", "caller", "downloader"}

Entry(t) == IF t = "scheduler" THEN "scheduler_start"
            ELSE IF t = "caller" THEN "start_sync" ELSE "download_block"

\* the frame a task is in and the instruction it is at
Frame(t) == lock_stack[t][Len(lock_stack[t])]

Instruction(t) == Code[Frame(t)[1]][Frame(t)[2]]

\* the task with its innermost frame moved to instruction pc
MovedTo(t, pc) ==
    [lock_stack EXCEPT ![t] = [@ EXCEPT ![Len(@)] = <<@[1], pc>>]]

Advanced(t) == MovedTo(t, Frame(t)[2] + 1)

\* RwLock: a write guard excludes every other guard, a read guard excludes
\* write guards
LockFree(t, lock, mode) ==
    \A u \in Tasks \ {t} : \A g \in guards[u] :
        g[1] = lock => (mode = "read" /\ g[2] = "read")

\* a task calls its function
Enter(t) ==
    /\ lock_stack[t] = <<>>
    /\ lock_stack' = [lock_stack EXCEPT ![t] = << <<Entry(t), 1>> >>]
    /\ UNCHANGED <<guards, not_lock_vars>>

Acquire(t) ==
    /\ lock_stack[t] # <<>>
    /\ Instruction(t).op = "acquire"
    /\ LockFree(t, Instruction(t).lock, Instruction(t).mode)
    /\ guards' = [guards EXCEPT ![t] = @ \cup {<<Instruction(t).lock, Instruction(t).mode>>}]
    /\ lock_stack' = Advanced(t)
    /\ UNCHANGED not_lock_vars

Release(t) ==
    /\ lock_stack[t] # <<>>
    /\ Instruction(t).op = "release"
    /\ guards' = [guards EXCEPT ![t] = {g \in @ : g[1] # Instruction(t).lock}]
    /\ lock_stack' = Advanced(t)
    /\ UNCHANGED not_lock_vars

\* the task is suspended at the await and resumed
Resume(t) ==
    /\ lock_stack[t] # <<>>
    /\ Instruction(t).op = "await"
    /\ lock_stack' = Advanced(t)
    /\ UNCHANGED <<guards, not_lock_vars>>

CallFunction(t) ==
    /\ lock_stack[t] # <<>>
    /\ Instruction(t).op = "call"
    /\ lock_stack' = [Advanced(t) EXCEPT ![t] = Append(@, <<Instruction(t).lock, 1>>)]
    /\ UNCHANGED <<guards, not_lock_vars>>

TakeBranch(t) ==
    /\ lock_stack[t] # <<>>
    /\ Instruction(t).op = "branch"
    /\ \E pc \in Instruction(t).to : lock_stack' = MovedTo(t, pc)
    /\ UNCHANGED <<guards, not_lock_vars>>

Return(t) ==
    /\ lock_stack[t] # <<>>
    /\ Instruction(t).op = "return"
    /\ lock_stack' = [lock_stack EXCEPT ![t] = SubSeq(@, 1, Len(@) - 1)]
    /\ UNCHANGED <<guards, not_lock_vars>>

LockNext ==
    \E t \in Tasks :
        \/ Enter(t) \/ Acquire(t) \/ Release(t) \/ Resume(t)
        \/ CallFunction(t) \/ TakeBranch(t) \/ Return(t)

\* MemoryUTXOStorage::new
UtxoInit ==
    /\ outputs = [o \in {} |-> 0]
    /\ utxo_call = NoCall
    /\ adds = [o \in OutPoints |-> 0]
    /\ spends = [o \in OutPoints |-> 0]
    /\ current_height = 0
    /\ block_times = <<>>
    /\ current_difficulty = MinDifficulty
    /\ last_adjustment_height = 0
    /\ cm_call = NoCmCall
    /\ chain = <<>>
    /\ ledger = [o \in {} |-> 0]
    /\ ab_call = [block |-> NoBlock, result |-> "Ok", broadcast |-> FALSE]
    /\ sync_state = NewSyncState
    /\ known_peers = [id \in {} |-> 0]
    /\ active_peers = {}
    /\ block_queue = <<>>
    /\ requested_blocks = {}
    /\ sync_pc = [c \in Callers |-> Outside(c)]
    /\ sync_peers = [c \in Callers |-> 0]
    /\ dl_pc = [d \in Downloads |-> DlIdle]
    /\ sync_call = SyncCall(0, "none", "Ok")
    /\ compact = NoCompact
    /\ miner = NoMiner
    /\ pow_call = NoPowCall
    /\ reward_call = NoRewardCall
    /\ tree = NoTree
    /\ merkle_call = NoMerkleCall
    /\ proto_call = NoProtoCall
    /\ root_call = NoRootCall
    /\ lock_stack = [t \in Tasks |-> <<>>]
    /\ guards = [t \in Tasks |-> {}]

SpecUtxo == UtxoInit /\ [][UtxoNext]_vars

\* ConsensusManager::new(config, initial_difficulty), any initial difficulty
ConsensusInit ==
    /\ current_height = 0
    /\ block_times = <<>>
    /\ current_difficulty \in MinDifficulty..MaxDifficulty
    /\ last_adjustment_height = 0
    /\ cm_call = NoCmCall
    /\ outputs = [o \in {} |-> 0]
    /\ utxo_call = NoCall
    /\ adds = [o \in OutPoints |-> 0]
    /\ spends = [o \in OutPoints |-> 0]
    /\ chain = <<>>
    /\ ledger = [o \in {} |-> 0]
    /\ ab_call = [block |-> NoBlock, result |-> "Ok", broadcast |-> FALSE]
    /\ sync_state = NewSyncState
    /\ known_peers = [id \in {} |-> 0]
    /\ active_peers = {}
    /\ block_queue = <<>>
    /\ requested_blocks = {}
    /\ sync_pc = [c \in Callers |-> Outside(c)]
    /\ sync_peers = [c \in Callers |-> 0]
    /\ dl_pc = [d \in Downloads |-> DlIdle]
    /\ sync_call = SyncCall(0, "none", "Ok")
    /\ compact = NoCompact
    /\ miner = NoMiner
    /\ pow_call = NoPowCall
    /\ reward_call = NoRewardCall
    /\ tree = NoTree
    /\ merkle_call = NoMerkleCall
    /\ proto_call = NoProtoCall
    /\ root_call = NoRootCall
    /\ lock_stack = [t \in Tasks |-> <<>>]
    /\ guards = [t \in Tasks |-> {}]

SpecConsensus == ConsensusInit /\ [][ConsensusNext]_vars

\* QuantumResistantBlockchain::new: an empty chain over an empty UTXO set
ChainInit ==
    /\ chain = <<>>
    /\ ledger = [o \in {} |-> 0]
    /\ ab_call = [block |-> NoBlock, result |-> "Ok", broadcast |-> FALSE]
    /\ sync_state = NewSyncState
    /\ known_peers = [id \in {} |-> 0]
    /\ active_peers = {}
    /\ block_queue = <<>>
    /\ requested_blocks = {}
    /\ sync_pc = [c \in Callers |-> Outside(c)]
    /\ sync_peers = [c \in Callers |-> 0]
    /\ dl_pc = [d \in Downloads |-> DlIdle]
    /\ sync_call = SyncCall(0, "none", "Ok")
    /\ outputs = [o \in {} |-> 0]
    /\ utxo_call = NoCall
    /\ adds = [o \in OutPoints |-> 0]
    /\ spends = [o \in OutPoints |-> 0]
    /\ current_height = 0
    /\ block_times = <<>>
    /\ current_difficulty = MinDifficulty
    /\ last_adjustment_height = 0
    /\ cm_call = NoCmCall
    /\ compact = NoCompact
    /\ miner = NoMiner
    /\ pow_call = NoPowCall
    /\ reward_call = NoRewardCall
    /\ tree = NoTree
    /\ merkle_call = NoMerkleCall
    /\ proto_call = NoProtoCall
    /\ root_call = NoRootCall
    /\ lock_stack = [t \in Tasks |-> <<>>]
    /\ guards = [t \in Tasks |-> {}]

SpecChain == ChainInit /\ [][ChainNext]_vars

\* Any difficulty of the model, not yet converted
CompactInit ==
    /\ outputs = [o \in {} |-> 0]
    /\ utxo_call = NoCall
    /\ adds = [o \in OutPoints |-> 0]
    /\ spends = [o \in OutPoints |-> 0]
    /\ current_height = 0
    /\ block_times = <<>>
    /\ current_difficulty = MinDifficulty
    /\ last_adjustment_height = 0
    /\ cm_call = NoCmCall
    /\ chain = <<>>
    /\ ledger = [o \in {} |-> 0]
    /\ ab_call = [block |-> NoBlock, result |-> "Ok", broadcast |-> FALSE]
    /\ sync_state = NewSyncState
    /\ known_peers = [id \in {} |-> 0]
    /\ active_peers = {}
    /\ block_queue = <<>>
    /\ requested_blocks = {}
    /\ sync_pc = [c \in Callers |-> Outside(c)]
    /\ sync_peers = [c \in Callers |-> 0]
    /\ dl_pc = [d \in Downloads |-> DlIdle]
    /\ sync_call = SyncCall(0, "none", "Ok")
    /\ compact \in { [NoCompact EXCEPT !.difficulty = d] : d \in CompactDifficulties }
    /\ miner = NoMiner
    /\ pow_call = NoPowCall
    /\ reward_call = NoRewardCall
    /\ tree = NoTree
    /\ merkle_call = NoMerkleCall
    /\ proto_call = NoProtoCall
    /\ root_call = NoRootCall
    /\ lock_stack = [t \in Tasks |-> <<>>]
    /\ guards = [t \in Tasks |-> {}]

SpecCompact == CompactInit /\ [][CompactNext]_vars

\* A call of is_valid or of choose_best_solution is about to be made
PowInit ==
    /\ outputs = [o \in {} |-> 0]
    /\ utxo_call = NoCall
    /\ adds = [o \in OutPoints |-> 0]
    /\ spends = [o \in OutPoints |-> 0]
    /\ current_height = 0
    /\ block_times = <<>>
    /\ current_difficulty = MinDifficulty
    /\ last_adjustment_height = 0
    /\ cm_call = NoCmCall
    /\ chain = <<>>
    /\ ledger = [o \in {} |-> 0]
    /\ ab_call = [block |-> NoBlock, result |-> "Ok", broadcast |-> FALSE]
    /\ sync_state = NewSyncState
    /\ known_peers = [id \in {} |-> 0]
    /\ active_peers = {}
    /\ block_queue = <<>>
    /\ requested_blocks = {}
    /\ sync_pc = [c \in Callers |-> Outside(c)]
    /\ sync_peers = [c \in Callers |-> 0]
    /\ dl_pc = [d \in Downloads |-> DlIdle]
    /\ sync_call = SyncCall(0, "none", "Ok")
    /\ compact = NoCompact
    /\ miner = NoMiner
    /\ pow_call \in PowCalls
    /\ reward_call = NoRewardCall
    /\ tree = NoTree
    /\ merkle_call = NoMerkleCall
    /\ proto_call = NoProtoCall
    /\ root_call = NoRootCall
    /\ lock_stack = [t \in Tasks |-> <<>>]
    /\ guards = [t \in Tasks |-> {}]

SpecPow == PowInit /\ [][PowNext]_vars

\* PowMiner::new(params), any of the nonce ranges
MinerInit ==
    /\ outputs = [o \in {} |-> 0]
    /\ utxo_call = NoCall
    /\ adds = [o \in OutPoints |-> 0]
    /\ spends = [o \in OutPoints |-> 0]
    /\ current_height = 0
    /\ block_times = <<>>
    /\ current_difficulty = MinDifficulty
    /\ last_adjustment_height = 0
    /\ cm_call = NoCmCall
    /\ chain = <<>>
    /\ ledger = [o \in {} |-> 0]
    /\ ab_call = [block |-> NoBlock, result |-> "Ok", broadcast |-> FALSE]
    /\ sync_state = NewSyncState
    /\ known_peers = [id \in {} |-> 0]
    /\ active_peers = {}
    /\ block_queue = <<>>
    /\ requested_blocks = {}
    /\ sync_pc = [c \in Callers |-> Outside(c)]
    /\ sync_peers = [c \in Callers |-> 0]
    /\ dl_pc = [d \in Downloads |-> DlIdle]
    /\ sync_call = SyncCall(0, "none", "Ok")
    /\ compact = NoCompact
    /\ miner \in { PowMiner(range) : range \in NonceRanges }
    /\ pow_call = NoPowCall
    /\ reward_call = NoRewardCall
    /\ tree = NoTree
    /\ merkle_call = NoMerkleCall
    /\ proto_call = NoProtoCall
    /\ root_call = NoRootCall
    /\ lock_stack = [t \in Tasks |-> <<>>]
    /\ guards = [t \in Tasks |-> {}]

SpecMiner == MinerInit /\ [][MinerNext]_vars

\* No reward computed yet
RewardInit ==
    /\ outputs = [o \in {} |-> 0]
    /\ utxo_call = NoCall
    /\ adds = [o \in OutPoints |-> 0]
    /\ spends = [o \in OutPoints |-> 0]
    /\ current_height = 0
    /\ block_times = <<>>
    /\ current_difficulty = MinDifficulty
    /\ last_adjustment_height = 0
    /\ cm_call = NoCmCall
    /\ chain = <<>>
    /\ ledger = [o \in {} |-> 0]
    /\ ab_call = [block |-> NoBlock, result |-> "Ok", broadcast |-> FALSE]
    /\ sync_state = NewSyncState
    /\ known_peers = [id \in {} |-> 0]
    /\ active_peers = {}
    /\ block_queue = <<>>
    /\ requested_blocks = {}
    /\ sync_pc = [c \in Callers |-> Outside(c)]
    /\ sync_peers = [c \in Callers |-> 0]
    /\ dl_pc = [d \in Downloads |-> DlIdle]
    /\ sync_call = SyncCall(0, "none", "Ok")
    /\ compact = NoCompact
    /\ miner = NoMiner
    /\ pow_call = NoPowCall
    /\ reward_call = NoRewardCall
    /\ tree = NoTree
    /\ merkle_call = NoMerkleCall
    /\ proto_call = NoProtoCall
    /\ root_call = NoRootCall
    /\ lock_stack = [t \in Tasks |-> <<>>]
    /\ guards = [t \in Tasks |-> {}]

SpecReward == RewardInit /\ [][RewardNext]_vars

SpecChainReward == RewardInit /\ [][ChainRewardNext]_vars

\* MerkleTree::new(&data) on any non-empty data of the model
MerkleInit ==
    /\ outputs = [o \in {} |-> 0]
    /\ utxo_call = NoCall
    /\ adds = [o \in OutPoints |-> 0]
    /\ spends = [o \in OutPoints |-> 0]
    /\ current_height = 0
    /\ block_times = <<>>
    /\ current_difficulty = MinDifficulty
    /\ last_adjustment_height = 0
    /\ cm_call = NoCmCall
    /\ chain = <<>>
    /\ ledger = [o \in {} |-> 0]
    /\ ab_call = [block |-> NoBlock, result |-> "Ok", broadcast |-> FALSE]
    /\ sync_state = NewSyncState
    /\ known_peers = [id \in {} |-> 0]
    /\ active_peers = {}
    /\ block_queue = <<>>
    /\ requested_blocks = {}
    /\ sync_pc = [c \in Callers |-> Outside(c)]
    /\ sync_peers = [c \in Callers |-> 0]
    /\ dl_pc = [d \in Downloads |-> DlIdle]
    /\ sync_call = SyncCall(0, "none", "Ok")
    /\ compact = NoCompact
    /\ miner = NoMiner
    /\ pow_call = NoPowCall
    /\ reward_call = NoRewardCall
    /\ tree \in { MerkleTree(data) : data \in DataSeqs(MaxLeaves) \ { <<>> } }
    /\ merkle_call = NoMerkleCall
    /\ proto_call = NoProtoCall
    /\ root_call = NoRootCall
    /\ lock_stack = [t \in Tasks |-> <<>>]
    /\ guards = [t \in Tasks |-> {}]

SpecMerkle == MerkleInit /\ [][MerkleNext]_vars

SpecLeaf == MerkleInit /\ [][LeafNext]_vars

\* a call of the framing layer is about to be made
ProtoInit ==
    /\ outputs = [o \in {} |-> 0]
    /\ utxo_call = NoCall
    /\ adds = [o \in OutPoints |-> 0]
    /\ spends = [o \in OutPoints |-> 0]
    /\ current_height = 0
    /\ block_times = <<>>
    /\ current_difficulty = MinDifficulty
    /\ last_adjustment_height = 0
    /\ cm_call = NoCmCall
    /\ chain = <<>>
    /\ ledger = [o \in {} |-> 0]
    /\ ab_call = [block |-> NoBlock, result |-> "Ok", broadcast |-> FALSE]
    /\ sync_state = NewSyncState
    /\ known_peers = [id \in {} |-> 0]
    /\ active_peers = {}
    /\ block_queue = <<>>
    /\ requested_blocks = {}
    /\ sync_pc = [c \in Callers |-> Outside(c)]
    /\ sync_peers = [c \in Callers |-> 0]
    /\ dl_pc = [d \in Downloads |-> DlIdle]
    /\ sync_call = SyncCall(0, "none", "Ok")
    /\ compact = NoCompact
    /\ miner = NoMiner
    /\ pow_call = NoPowCall
    /\ reward_call = NoRewardCall
    /\ tree = NoTree
    /\ merkle_call = NoMerkleCall
    /\ proto_call \in ProtoCalls
    /\ root_call = NoRootCall
    /\ lock_stack = [t \in Tasks |-> <<>>]
    /\ guards = [t \in Tasks |-> {}]

SpecProto == ProtoInit /\ [][ProtoNext]_vars

\* MerkleTree::new is about to be called on 0 to MaxLeaves pre-hashed leaves
RootInit ==
    /\ outputs = [o \in {} |-> 0]
    /\ utxo_call = NoCall
    /\ adds = [o \in OutPoints |-> 0]
    /\ spends = [o \in OutPoints |-> 0]
    /\ current_height = 0
    /\ block_times = <<>>
    /\ current_difficulty = MinDifficulty
    /\ last_adjustment_height = 0
    /\ cm_call = NoCmCall
    /\ chain = <<>>
    /\ ledger = [o \in {} |-> 0]
    /\ ab_call = [block |-> NoBlock, result |-> "Ok", broadcast |-> FALSE]
    /\ sync_state = NewSyncState
    /\ known_peers = [id \in {} |-> 0]
    /\ active_peers = {}
    /\ block_queue = <<>>
    /\ requested_blocks = {}
    /\ sync_pc = [c \in Callers |-> Outside(c)]
    /\ sync_peers = [c \in Callers |-> 0]
    /\ dl_pc = [d \in Downloads |-> DlIdle]
    /\ sync_call = SyncCall(0, "none", "Ok")
    /\ compact = NoCompact
    /\ miner = NoMiner
    /\ pow_call = NoPowCall
    /\ reward_call = NoRewardCall
    /\ tree = NoTree
    /\ merkle_call = NoMerkleCall
    /\ proto_call = NoProtoCall
    /\ root_call \in {[NoRootCall EXCEPT !.leaves = l] : l \in LeafLists}
    /\ lock_stack = [t \in Tasks |-> <<>>]
    /\ guards = [t \in Tasks |-> {}]

SpecRoot == RootInit /\ [][RootNext]_vars

\* no task has called its function yet
LockInit ==
    /\ outputs = [o \in {} |-> 0]
    /\ utxo_call = NoCall
    /\ adds = [o \in OutPoints |-> 0]
    /\ spends = [o \in OutPoints |-> 0]
    /\ current_height = 0
    /\ block_times = <<>>
    /\ current_difficulty = MinDifficulty
    /\ last_adjustment_height = 0
    /\ cm_call = NoCmCall
    /\ chain = <<>>
    /\ ledger = [o \in {} |-> 0]
    /\ ab_call = [block |-> NoBlock, result |-> "Ok", broadcast |-> FALSE]
    /\ sync_state = NewSyncState
    /\ known_peers = [id \in {} |-> 0]
    /\ active_peers = {}
    /\ block_queue = <<>>
    /\ requested_blocks = {}
    /\ sync_pc = [c \in Callers |-> Outside(c)]
    /\ sync_peers = [c \in Callers |-> 0]
    /\ dl_pc = [d \in Downloads |-> DlIdle]
    /\ sync_call = SyncCall(0, "none", "Ok")
    /\ compact = NoCompact
    /\ miner = NoMiner
    /\ pow_call = NoPowCall
    /\ reward_call = NoRewardCall
    /\ tree = NoTree
    /\ merkle_call = NoMerkleCall
    /\ proto_call = NoProtoCall
    /\ root_call = NoRootCall
    /\ lock_stack = [t \in Tasks |-> <<>>]
    /\ guards = [t \in Tasks |-> {}]

SpecLocks == LockInit /\ [][LockNext]_vars

\* Every component constructed
\* DifficultyManager::new(params, initial_difficulty), any initial difficulty
DifficultyInit ==
    /\ current_height = 0
    /\ block_times = <<>>
    /\ current_difficulty \in 0..(MaxDifficulty + 1)
    /\ last_adjustment_height = 0
    /\ cm_call = NoCmCall
    /\ outputs = [o \in {} |-> 0]
    /\ utxo_call = NoCall
    /\ adds = [o \in OutPoints |-> 0]
    /\ spends = [o \in OutPoints |-> 0]
    /\ chain = <<>>
    /\ ledger = [o \in {} |-> 0]
    /\ ab_call = [block |-> NoBlock, result |-> "Ok", broadcast |-> FALSE]
    /\ sync_state = NewSyncState
    /\ known_peers = [id \in {} |-> 0]
    /\ active_peers = {}
    /\ block_queue = <<>>
    /\ requested_blocks = {}
    /\ sync_pc = [c \in Callers |-> Outside(c)]
    /\ sync_peers = [c \in Callers |-> 0]
    /\ dl_pc = [d \in Downloads |-> DlIdle]
    /\ sync_call = SyncCall(0, "none", "Ok")
    /\ compact = NoCompact
    /\ miner = NoMiner
    /\ pow_call = NoPowCall
    /\ reward_call = NoRewardCall
    /\ tree = NoTree
    /\ merkle_call = NoMerkleCall
    /\ proto_call = NoProtoCall
    /\ root_call = NoRootCall
    /\ lock_stack = [t \in Tasks |-> <<>>]
    /\ guards = [t \in Tasks |-> {}]

SpecDifficulty == DifficultyInit /\ [][DifficultyNext]_vars

\* SyncManager::new, with the scheduler and the callers outside start_sync.
\* Hashes may be pending and a download may be under way.
SyncInit ==
    /\ sync_state = NewSyncState
    /\ known_peers = [id \in {} |-> 0]
    /\ active_peers = {}
    /\ \E pending \in { <<<<>>, {}>>, <<<<2, 1>>, {1}>> } :
         /\ block_queue = pending[1]
         /\ requested_blocks = pending[2]
         /\ dl_pc = [d \in Downloads |->
                       IF d \in pending[2] THEN [pc |-> "processing", hash |-> d]
                       ELSE DlIdle]
    /\ sync_pc = [c \in Callers |-> Outside(c)]
    /\ sync_peers = [c \in Callers |-> 0]
    /\ sync_call = SyncCall(0, "none", "Ok")
    /\ outputs = [o \in {} |-> 0]
    /\ utxo_call = NoCall
    /\ adds = [o \in OutPoints |-> 0]
    /\ spends = [o \in OutPoints |-> 0]
    /\ current_height = 0
    /\ block_times = <<>>
    /\ current_difficulty = MinDifficulty
    /\ last_adjustment_height = 0
    /\ cm_call = NoCmCall
    /\ chain = <<>>
    /\ ledger = [o \in {} |-> 0]
    /\ ab_call = [block |-> NoBlock, result |-> "Ok", broadcast |-> FALSE]
    /\ compact = NoCompact
    /\ miner = NoMiner
    /\ pow_call = NoPowCall
    /\ reward_call = NoRewardCall
    /\ tree = NoTree
    /\ merkle_call = NoMerkleCall
    /\ proto_call = NoProtoCall
    /\ root_call = NoRootCall
    /\ lock_stack = [t \in Tasks |-> <<>>]
    /\ guards = [t \in Tasks |-> {}]

SpecSync == SyncInit /\ [][SyncNext]_vars

\* The scheduler's loop keeps turning and every call of start_sync that can
\* take a step takes it.
SyncFairness == WF_vars(Tick) /\ \A c \in Callers : WF_vars(SyncStep(c))

SpecSyncFair == SpecSync /\ SyncFairness

\* SyncManager::new, nothing pending
DownloadInit ==
    /\ sync_state = NewSyncState
    /\ known_peers = [id \in {} |-> 0]
    /\ active_peers = {}
    /\ block_queue = <<>>
    /\ requested_blocks = {}
    /\ sync_pc = [c \in Callers |-> Outside(c)]
    /\ sync_peers = [c \in Callers |-> 0]
    /\ dl_pc = [d \in Downloads |-> DlIdle]
    /\ sync_call = SyncCall(0, "none", "Ok")
    /\ outputs = [o \in {} |-> 0]
    /\ utxo_call = NoCall
    /\ adds = [o \in OutPoints |-> 0]
    /\ spends = [o \in OutPoints |-> 0]
    /\ current_height = 0
    /\ block_times = <<>>
    /\ current_difficulty = MinDifficulty
    /\ last_adjustment_height = 0
    /\ cm_call = NoCmCall
    /\ chain = <<>>
    /\ ledger = [o \in {} |-> 0]
    /\ ab_call = [block |-> NoBlock, result |-> "Ok", broadcast |-> FALSE]
    /\ compact = NoCompact
    /\ miner = NoMiner
    /\ pow_call = NoPowCall
    /\ reward_call = NoRewardCall
    /\ tree = NoTree
    /\ merkle_call = NoMerkleCall
    /\ proto_call = NoProtoCall
    /\ root_call = NoRootCall
    /\ lock_stack = [t \in Tasks |-> <<>>]
    /\ guards = [t \in Tasks |-> {}]

SpecDownload == DownloadInit /\ [][DownloadNext]_vars

Init ==
    /\ outputs = [o \in {} |-> 0]
    /\ utxo_call = NoCall
    /\ adds = [o \in OutPoints |-> 0]
    /\ spends = [o \in OutPoints |-> 0]
    /\ current_height = 0
    /\ block_times = <<>>
    /\ current_difficulty \in MinDifficulty..MaxDifficulty
    /\ last_adjustment_height = 0
    /\ cm_call = NoCmCall
    /\ chain = <<>>
    /\ ledger = [o \in {} |-> 0]
    /\ ab_call = [block |-> NoBlock, result |-> "Ok", broadcast |-> FALSE]
    /\ sync_state = NewSyncState
    /\ known_peers = [id \in {} |-> 0]
    /\ active_peers = {}
    /\ block_queue = <<>>
    /\ requested_blocks = {}
    /\ sync_pc = [c \in Callers |-> Outside(c)]
    /\ sync_peers = [c \in Callers |-> 0]
    /\ dl_pc = [d \in Downloads |-> DlIdle]
    /\ sync_call = SyncCall(0, "none", "Ok")
    /\ compact = NoCompact
    /\ miner = NoMiner
    /\ pow_call = NoPowCall
    /\ reward_call = NoRewardCall
    /\ tree = NoTree
    /\ merkle_call = NoMerkleCall
    /\ proto_call = NoProtoCall
    /\ root_call = NoRootCall
    /\ lock_stack = [t \in Tasks |-> <<>>]
    /\ guards = [t \in Tasks |-> {}]

Next ==
    \/ UtxoNext \/ ConsensusNext \/ DifficultyNext \/ ChainNext \/ SyncNext
    \/ DownloadNext \/ CompactNext \/ PowNext \/ MinerNext
    \/ RewardNext \/ MerkleNext \/ LeafNext \/ ProtoNext \/ RootNext
    \/ LockNext \/ ChainRewardNext

Spec == Init /\ [][Next]_vars

(***************************************************************************)
(* Properties of MemoryUTXOStorage (checked under SpecUtxo)                *)
(***************************************************************************)
\* The step is a call of operation op on outpoint o.
UtxoCalled(op, o) == utxo_call'.op = op /\ utxo_call'.outpoint = o

\* Outpoint o was spent and is not present.
LastSpent(o) == spends[o] > 0 /\ o \notin DOMAIN outputs

\* C7: add_output on an outpoint that is already present fails with the error
\* AlreadyExists and leaves the existing record and every other record unchanged.
C7_AddPresentFailsAlreadyExists ==
    [][\A o \in OutPoints :
          (UtxoCalled("add_output", o) /\ o \in DOMAIN outputs)
              => (utxo_call'.result = "AlreadyExists" /\ outputs' = outputs)]_utxo_vars

\* C8: spend_output on an outpoint that is not present fails with NotFound and
\* leaves the whole set unchanged; a second spend of the same outpoint with no
\* add in between fails NotFound.
C8_SpendAbsentNotFound ==
    [][\A o \in OutPoints :
          /\ (UtxoCalled("spend_output", o) /\ o \notin DOMAIN outputs)
                => (utxo_call'.result = "NotFound" /\ outputs' = outputs)
          /\ (UtxoCalled("spend_output", o) /\ LastSpent(o))
                => utxo_call'.result = "NotFound"]_utxo_vars

\* C8 witness: a spend of an outpoint that was added and spent before was
\* answered NotFound.
C8_Witness ==
    /\ utxo_call.op = "spend_output"
    /\ utxo_call.result = "NotFound"
    /\ spends[utxo_call.outpoint] > 0
    /\ outputs # [o \in {} |-> 0]

\* C9: after a successful add_output followed by a successful spend_output of
\* an outpoint, get_output returns absent and get_unspent_outputs does not list
\* it; the spend leaves all other records untouched.
C9_AddSpendGetAbsent ==
    /\ [](\A o \in OutPoints :
            LastSpent(o) =>
                /\ get_output(outputs, o) = <<>>
                /\ \A r \in get_unspent_outputs(outputs) : r.outpoint # o
                /\ (utxo_call.op = "get_output" /\ utxo_call.outpoint = o)
                      => utxo_call.returned = <<>>)
    /\ [][\A o \in OutPoints :
            (UtxoCalled("spend_output", o) /\ utxo_call'.result = "Ok")
                => /\ o \in DOMAIN outputs
                   /\ spends'[o] > 0 /\ o \notin DOMAIN outputs'
                   /\ DOMAIN outputs' = DOMAIN outputs \ {o}
                   /\ \A p \in DOMAIN outputs' : outputs'[p] = outputs[p]]_utxo_vars

\* C9 witness: get_output was called on an outpoint that was added and then
\* spent, while another record is still present.
C9_Witness ==
    /\ utxo_call.op = "get_output"
    /\ adds[utxo_call.outpoint] > 0
    /\ LastSpent(utxo_call.outpoint)
    /\ utxo_call.returned = <<>>
    /\ DOMAIN outputs # {}

\* C10: over the lifetime of the ledger each outpoint is successfully added at
\* most once and successfully spent at most once.
C10_AddedOnceSpentOnce ==
    \A o \in OutPoints : adds[o] <= 1 /\ spends[o] <= 1

(***************************************************************************)
(* Properties of ConsensusManager (checked under SpecConsensus)            *)
(***************************************************************************)
\* C3: process_block returns an error whenever block_height is not
\* current_height + 1 and then leaves current_height, block_times and the
\* difficulty unchanged; when it succeeds current_height grows by exactly 1.
C3_ProcessBlockConsecutive ==
    [][cm_call'.op = "process_block" =>
          /\ cm_call'.block_height # current_height + 1 =>
                /\ cm_call'.result # "Ok"
                /\ current_height' = current_height
                /\ block_times' = block_times
                /\ current_difficulty' = current_difficulty
                /\ last_adjustment_height' = last_adjustment_height
          /\ cm_call'.result = "Ok" =>
                /\ current_height' = current_height + 1
                /\ cm_call'.block_height = current_height + 1]_consensus_vars

\* C3 witness: after blocks were accepted, a block of another height than
\* current_height + 1 was refused.
C3_Witness ==
    /\ cm_call.op = "process_block"
    /\ cm_call.result = "HeightNotConsecutive"
    /\ cm_call.block_height = current_height + 2
    /\ current_height >= AdjustmentInterval
    /\ Len(block_times) > 0

\* C4: validate_block_pow accepts a solution only if its hash is at most
\* difficulty_to_target(current difficulty), whatever difficulty the solution
\* itself declares.
C4_PowAgainstCurrentTarget ==
    (cm_call.op = "validate_block_pow" /\ cm_call.result = "Ok")
        => meets_difficulty(cm_call.solution.hash, get_current_target(Manager))

\* The exact sum of the values of the records of the outpoints todo.
RECURSIVE ExactValue(_, _)
ExactValue(outs, todo) ==
    IF todo = {} THEN 0
    ELSE LET o == CHOOSE x \in todo : TRUE
         IN ExactValue(outs, todo \ {o}) + outs[o][1].value

\* C11: after any sequence of add_output, spend_output and clear, get_stats
\* returns total_outputs = unspent_outputs = the number of live records and
\* total_value = unspent_value = the exact sum of their values, also when that
\* sum is beyond the u64 range.
C11_StatsExact ==
    utxo_call.op = "get_stats" =>
        utxo_call.returned =
            <<[total_outputs |-> Cardinality(DOMAIN outputs),
               total_value |-> ExactValue(outputs, DOMAIN outputs),
               unspent_outputs |-> Cardinality(DOMAIN outputs),
               unspent_value |-> ExactValue(outputs, DOMAIN outputs)]>>

\* C20: after any sequence of adjust_difficulty calls on a DifficultyManager
\* the current difficulty lies in [min_difficulty, max_difficulty].
C20_DifficultyWithinBounds ==
    cm_call.op = "adjust_difficulty"
        => (MinDifficulty <= current_difficulty /\ current_difficulty <= MaxDifficulty)

\* The adjust_difficulty call of this step is at an adjustment height and has
\* fewer than adjustment_interval time samples.
ShortOfSamples ==
    /\ cm_call'.op = "adjust_difficulty"
    /\ cm_call'.block_height >= last_adjustment_height + AdjustmentInterval
    /\ cm_call'.samples < AdjustmentInterval

\* C21: adjust_difficulty at an adjustment height with fewer than
\* adjustment_interval time samples returns the unchanged current difficulty
\* as a success value, not an error.
C21_ShortOfSamplesReturnsCurrent ==
    [][ShortOfSamples =>
          /\ cm_call'.result = "Ok"
          /\ cm_call'.value = current_difficulty
          /\ current_difficulty' = current_difficulty]_consensus_vars

\* C22: adjust_difficulty at an adjustment height with fewer than
\* adjustment_interval time samples fails with InsufficientData and leaves the
\* current difficulty and the last-adjustment height unchanged.
C22_ShortOfSamplesFails ==
    [][ShortOfSamples =>
          /\ cm_call'.result = "InsufficientData"
          /\ current_difficulty' = current_difficulty
          /\ last_adjustment_height' = last_adjustment_height]_consensus_vars

\* C22 witness: after an earlier retarget moved the difficulty, a call at the
\* next adjustment height with one sample too few was refused.
C22_Witness ==
    /\ cm_call.op = "adjust_difficulty"
    /\ cm_call.result = "InsufficientData"
    /\ cm_call.samples = AdjustmentInterval - 1
    /\ last_adjustment_height > 0
    /\ cm_call.block_height >= last_adjustment_height + AdjustmentInterval
    /\ current_difficulty > MinDifficulty

\* C23: for every difficulty d with 0 <= d < 2^24,
\* from_difficulty(d).to_difficulty() = d.
C23_CompactRoundTrip ==
    (compact.recovered # <<>> /\ compact.difficulty < 2 ^ 24)
        => compact.recovered[1] = compact.difficulty

(***************************************************************************)
(* Properties of PowSolution, PowMiner and PowValidator                    *)
(***************************************************************************)
\* C24: is_valid(header, target) is true exactly when the stored hash, read as
\* a big-endian unsigned integer, is at most the target and equals
\* compute_hash(header, nonce, extra_nonce); a solution whose stored hash,
\* nonce or extra nonce was altered is rejected, also with its hash below the
\* target.
C24_IsValidExact ==
    (pow_call.op = "is_valid" /\ pow_call.done) =>
        LET s == pow_call.solutions[1] IN
        /\ pow_call.returned[1]
             = (/\ s.hash <= pow_call.target
                /\ s.hash = compute_hash(pow_call.header, s.nonce, s.extra_nonce))
        /\ pow_call.altered # "none" => pow_call.returned[1] = FALSE

\* C24 witness: a solution with another nonce than the one hashed, its stored
\* hash below the target, was rejected.
C24_Witness ==
    /\ pow_call.op = "is_valid"
    /\ pow_call.done
    /\ pow_call.altered = "nonce"
    /\ pow_call.solutions[1].hash < pow_call.target
    /\ pow_call.returned = <<FALSE>>

\* The nonce n meets the target of the last mine call with the extra nonce
\* that call used.
Fits(n) ==
    meets_difficulty(compute_hash(pow_call.header, n, <<pow_call.extra_nonce>>),
                     pow_call.target)

\* C25: when mine returns a solution, its nonce is the smallest nonce of the
\* configured range whose hash, with the extra nonce in use, meets the target,
\* and the solution passes PowValidator::validate for that header and target.
C25_MineFirstFit ==
    (pow_call.op = "mine" /\ pow_call.returned # <<>>) =>
        LET s == pow_call.returned[1] IN
        /\ s.nonce \in miner.nonce_range[1]..miner.nonce_range[2]
        /\ s.extra_nonce = <<pow_call.extra_nonce>>
        /\ Fits(s.nonce)
        /\ \A n \in miner.nonce_range[1]..(s.nonce - 1) : ~Fits(n)
        /\ validate(s, pow_call.header, pow_call.target)

\* C25 witness: after a run that exhausted the range, mine returned a nonce
\* past the start of the range although a later nonce meets the target too.
C25_Witness ==
    /\ pow_call.op = "mine"
    /\ pow_call.returned # <<>>
    /\ pow_call.extra_nonce > 0
    /\ pow_call.returned[1].nonce > miner.nonce_range[1]
    /\ \E n \in (pow_call.returned[1].nonce + 1)..miner.nonce_range[2] : Fits(n)

\* The candidates of the last choose_best_solution call
Candidates == { pow_call.solutions[i] : i \in 1..Len(pow_call.solutions) }

\* C26: choose_best_solution returns None on an empty list and otherwise a
\* candidate with the lowest difficulty among the candidates.
C26_BestIsLowestDifficulty ==
    (pow_call.op = "choose_best_solution" /\ pow_call.done) =>
        IF pow_call.solutions = <<>> THEN pow_call.returned = <<>>
        ELSE /\ pow_call.returned # <<>>
             /\ pow_call.returned[1] \in Candidates
             /\ \A c \in Candidates : pow_call.returned[1].difficulty <= c.difficulty

\* C27: choose_best_solution returns the candidate with the maximum difficulty.
C27_BestIsHighestDifficulty ==
    (pow_call.op = "choose_best_solution" /\ pow_call.done /\ pow_call.solutions # <<>>) =>
        /\ pow_call.returned # <<>>
        /\ \A c \in Candidates : pow_call.returned[1].difficulty >= c.difficulty

\* C28: calculate_block_reward of reward.rs is non-increasing in the height,
\* never below the tail floor of 50,000,000 base units, 3,237,500,000 at
\* height 0 and the floor at every height from DECAY_PERIOD_BLOCKS on.
C28_RewardSchedule ==
    reward_call.calls > 0 =>
        /\ AmountLe(<<5000, 0>>, reward_call.reward)
        /\ reward_call.height = 0 => reward_call.reward = <<323750, 0>>
        /\ reward_call.height >= DECAY_PERIOD_BLOCKS => reward_call.reward = <<5000, 0>>
        /\ (reward_call.calls > 1 /\ reward_call.prev_height <= reward_call.height)
              => AmountLe(reward_call.reward, reward_call.prev_reward)

\* C28 witness: the reward of the last block before the horizon was computed,
\* above the floor, and then the reward at the horizon, the floor.
C28_Witness ==
    /\ reward_call.calls > 1
    /\ reward_call.prev_height = DECAY_PERIOD_BLOCKS - 1
    /\ reward_call.height = DECAY_PERIOD_BLOCKS
    /\ reward_call.prev_reward # reward_call.reward
    /\ reward_call.reward = min_reward

\* C40: the block reward computed inside the acceptance pipeline (chain.rs
\* calculate_block_reward) equals the reward of reward.rs at every height; in
\* particular it is non-increasing in the height, never below the tail floor
\* of 50,000,000 base units and the floor from DECAY_PERIOD_BLOCKS on.
C40_PipelineRewardIsSchedule ==
    reward_call.calls > 0 =>
        /\ reward_call.reward = calculate_block_reward(reward_call.height)
        /\ AmountLe(<<5000, 0>>, reward_call.reward)
        /\ reward_call.height >= DECAY_PERIOD_BLOCKS => reward_call.reward = <<5000, 0>>
        /\ (reward_call.calls > 1 /\ reward_call.prev_height <= reward_call.height)
              => AmountLe(reward_call.reward, reward_call.prev_reward)

(***************************************************************************)
(* Properties of MerkleTree                                                *)
(***************************************************************************)
\* C29: for every index below the leaf count verify_proof of the generated
\* proof against root() succeeds, also for the last leaf of a level with an
\* odd node count; generate_proof fails InvalidIndex for every index from the
\* leaf count on.
C29_ProofRoundTrip ==
    /\ merkle_call.op = "generate_proof" =>
          (merkle_call.result = "InvalidIndex" <=> merkle_call.index >= Len(tree.leaves))
    /\ (merkle_call.op = "verify_proof" /\ ~merkle_call.altered) =>
          merkle_call.returned = <<TRUE>>

\* C29 witness: the proof of the last leaf of five, which has no right sibling
\* on two levels, was verified.
C29_Witness ==
    /\ merkle_call.op = "verify_proof"
    /\ ~merkle_call.altered
    /\ Len(tree.leaves) = 5
    /\ merkle_call.index = 4
    /\ merkle_call.proof.proof_indices = <<0, 0, 0>>
    /\ merkle_call.returned = <<TRUE>>

\* C31: verify_leaf(leaf_data, index) returns true only if leaf_data is the
\* data committed at that index.
C31_VerifyLeafChecksData ==
    (merkle_call.op = "verify_leaf" /\ merkle_call.returned = <<TRUE>>) =>
        /\ merkle_call.index < Len(tree.leaves)
        /\ tree.leaves[merkle_call.index + 1] = hash_leaf(merkle_call.leaf_data)

\* C30: with a collision-free hash, a generated proof in which the leaf hash
\* or one sibling hash was changed to another value fails verify_proof against
\* the root of the tree.
C30_AlteredProofFails ==
    (merkle_call.op = "verify_proof" /\ merkle_call.altered) =>
        merkle_call.returned = <<FALSE>>

\* C30 witness: a proof whose second sibling hash was replaced by the root of
\* the tree was rejected.
C30_Witness ==
    /\ merkle_call.op = "verify_proof"
    /\ merkle_call.altered
    /\ Len(merkle_call.proof.proof_hashes) >= 2
    /\ merkle_call.proof.proof_hashes[2] = tree.root
    /\ merkle_call.returned = <<FALSE>>

(***************************************************************************)
(* Properties of the SyncManager                                           *)
(***************************************************************************)
\* The callers that are inside a sync cycle: past the guard of start_sync and
\* not yet returned.
InCycle == { c \in Callers : sync_pc[c] \notin {"wait", "ready"} }

\* The known peers that are valid.
ValidPeers == { id \in DOMAIN known_peers : peer_is_valid(known_peers[id]) }

\* C12: start_sync called while the status is not Idle returns AlreadySyncing
\* and leaves the sync state, the pending queue and the requested set unchanged.
C12_AlreadySyncingNoChange ==
    [][(sync_call'.op = "start_sync" /\ sync_state.status # "Idle")
        => /\ sync_call'.result = "AlreadySyncing"
           /\ sync_state' = sync_state
           /\ block_queue' = block_queue
           /\ requested_blocks' = requested_blocks]_sync_vars

\* start_sync was refused during the header fetch, with peers connected, hashes
\* pending and a download under way.
C12_Witness ==
    /\ sync_call.op = "start_sync"
    /\ sync_call.result = "AlreadySyncing"
    /\ sync_state.status = "FetchingHeaders"
    /\ sync_state.peers_connected > 0
    /\ block_queue # <<>>
    /\ requested_blocks # {}

\* C13: under any interleaving of start_sync calls at most one sync cycle is
\* in progress; of the callers racing on an Idle status one proceeds and the
\* others get AlreadySyncing.
C13_OneCycleAtATime ==
    /\ [](Cardinality(InCycle) <= 1)
    /\ [][sync_call'.op = "start_sync"
            => /\ sync_state.status = "Idle" => sync_call'.result = "Running"
               /\ sync_call'.result = "Running" => InCycle = {}
               /\ InCycle # {} => sync_call'.result = "AlreadySyncing"]_sync_vars

\* The scheduler read Idle at its tick, called start_sync and was answered
\* AlreadySyncing, because a direct caller had entered in between.
C13_Witness ==
    /\ sync_call = SyncCall(0, "start_sync", "AlreadySyncing")
    /\ InCycle # {}
    /\ 0 \notin InCycle

\* The order of the states of a cycle.
StatusOrder ==
    { <<"Idle", "DiscoveringPeers">>, <<"DiscoveringPeers", "FetchingHeaders">>,
      <<"FetchingHeaders", "DownloadingBlocks">>,
      <<"DownloadingBlocks", "VerifyingBlocks">>, <<"VerifyingBlocks", "Completed">> }

\* C14: within a successful cycle the status goes through Idle,
\* DiscoveringPeers, FetchingHeaders, DownloadingBlocks, VerifyingBlocks,
\* Completed in this order, none skipped, none revisited.
C14_StatusOrder ==
    [][(<<sync_state.status, sync_state'.status>> \in StatusOrder)]_(sync_state.status)

\* C15: after a cycle reaches Completed, with the scheduler running and a valid
\* peer known, DiscoveringPeers is reached again.
C15_NewCycleAfterCompleted ==
    (sync_state.status = "Completed" /\ ValidPeers # {})
        ~> (sync_state.status = "DiscoveringPeers")

\* C16: start_sync started from Idle returns NoPeers exactly when no known
\* peer is valid at discovery time; otherwise discovery goes on and
\* peers_connected is set to the number of valid peers selected, at most 5.
C16_NoPeersIffNoneValid ==
    [][/\ sync_call'.op = "get_best_peers"
            => /\ sync_call'.result = "NoPeers" <=> ValidPeers = {}
               /\ ValidPeers # {}
                    => /\ sync_pc'[sync_call'.caller] = "connected"
                       /\ sync_peers'[sync_call'.caller]
                            = Min(Cardinality(ValidPeers), 5)
       /\ sync_call'.op = "peers_connected"
            => /\ sync_state'.peers_connected = sync_peers[sync_call'.caller]
               /\ sync_state'.peers_connected \in 1..5]_sync_vars

\* Discovery has connected five peers out of the six valid ones that were
\* known; all seven peers are known now.
C16_Witness ==
    /\ sync_call.op = "peers_connected"
    /\ sync_state.peers_connected = 5
    /\ Cardinality(ValidPeers) = 6
    /\ Cardinality(DOMAIN known_peers) = 7

\* C38: a failed sync cycle does not block later ones: after start_sync
\* returns NoPeers the status is Idle or Error(reason), not an in-progress
\* status, so that once a valid peer is added a later tick of the scheduler
\* starts a cycle.
C38_NoPeersLeavesIdleOrError ==
    [][(sync_call'.op = "get_best_peers" /\ sync_call'.result = "NoPeers")
          => /\ sync_pc'[sync_call'.caller] = Outside(sync_call'.caller)
             /\ sync_state'.status \in {"Idle", "Error"}]_sync_vars

\* The callers of download_block that are processing hash h.
Processing(h) == { d \in Downloads : dl_pc[d] = [pc |-> "processing", hash |-> h] }

\* C17: under any interleaving of download_block calls, for each hash at most
\* one call is between inserting it into the requested set and finishing.
C17_NoConcurrentRequest ==
    \A h \in 1..MaxHash :
        /\ Cardinality(Processing(h)) <= 1
        /\ h \in requested_blocks <=> Processing(h) # {}

\* A call of download_block returned at once because another call is
\* processing the same hash.
C17_Witness ==
    /\ sync_call.op = "download_block"
    /\ sync_call.result = "Ok"
    /\ Processing(sync_call.arg) # {}
    /\ sync_call.caller \notin Processing(sync_call.arg)

C18_DrainLosesNothing ==
    [][sync_call'.op = "get_blocks_for_download"
        => /\ block_queue = sync_call'.returned \o block_queue'
           /\ Len(sync_call'.returned) = Min(sync_call'.arg, Len(block_queue))]_sync_vars

\* C19: the pending queue holds no hash twice and no hash that is in the
\* requested set.
C19_QueueHoldsUnseenOnly ==
    /\ \A i, j \in 1..Len(block_queue) : i # j => block_queue[i] # block_queue[j]
    /\ \A i \in 1..Len(block_queue) : block_queue[i] \notin requested_blocks


(***************************************************************************)
(* Properties of the block acceptance pipeline                             *)
(***************************************************************************)
\* The step is an add_block call that answered an error and left the UTXO set
\* and the stored chain as they were.
Rejected == ab_call'.result # "Ok" /\ chain' = chain /\ ledger' = ledger

\* Some input of a transaction after the first has a signature that does not verify.
BadSignature(block) ==
    \E i \in 2..Len(block.transactions) :
        \E j \in 1..Len(block.transactions[i].inputs) :
            block.transactions[i].inputs[j].signature # "valid"

\* Every input of the transactions after the first names an output of utxos.
InputsKnown(block, utxos) ==
    \A i \in 2..Len(block.transactions) :
        \A j \in 1..Len(block.transactions[i].inputs) :
            block.transactions[i].inputs[j].outpoint \in DOMAIN utxos

\* The fees of the transactions after the first: inputs minus outputs.
BlockFees(block, utxos) ==
    LET fee(tx) == AmountSub(AmountSum([j \in 1..Len(tx.inputs) |->
                                           utxos[tx.inputs[j].outpoint]]),
                             AmountSum(tx.outputs))
    IN AmountSum([i \in 1..(Len(block.transactions) - 1) |->
                     fee(block.transactions[i + 1])])

\* The sum of the outputs of transaction 0.
CoinbaseTotal(block) ==
    IF block.transactions = <<>> THEN Amount(0)
    ELSE AmountSum(block.transactions[1].outputs)

\* C1: add_block is all-or-nothing: whenever it returns an error, at whatever
\* stage (structure, PoW, signatures, UTXO delta, coinbase, persistence,
\* broadcast), the UTXO set and the stored chain are what they were before.
C1_AddBlockAllOrNothing ==
    [][ab_call'.result # "Ok" => (chain' = chain /\ ledger' = ledger)]_chain_vars

\* C2: add_block rejects every block whose height is not current_height + 1,
\* so the accepted heights are consecutive, without a gap and without a repeat.
C2_ConsecutiveHeights ==
    /\ [](\A i \in 1..Len(chain) : chain[i].height = i)
    /\ [][ab_call'.block.height # Len(chain) + 1 => Rejected]_chain_vars

\* A block two above the tip was refused for its height after a block was accepted.
C2_Witness ==
    /\ ab_call.result = "InvalidHeight"
    /\ Len(chain) >= 1
    /\ ab_call.block.height = Len(chain) + 2

\* C5: add_block rejects every block whose coinbase outputs do not sum to
\* exactly reward(height) + the fees of the other transactions, a larger total
\* and a smaller one alike.
C5_CoinbaseExact ==
    [][(/\ InputsKnown(ab_call'.block, ledger)
        /\ CoinbaseTotal(ab_call'.block)
             # AmountAdd(chain_calculate_block_reward(ab_call'.block.height),
                         BlockFees(ab_call'.block, ledger)))
       => Rejected]_chain_vars

\* A block at the right height with a payment that pays a fee was refused for a
\* coinbase one unit below reward + fees.
C5_Witness ==
    /\ ab_call.result = "InvalidCoinbase"
    /\ Len(ab_call.block.transactions) >= 2
    /\ InputsKnown(ab_call.block, ledger)
    /\ BlockFees(ab_call.block, ledger) # Amount(0)
    /\ AmountAdd(CoinbaseTotal(ab_call.block), Amount(1))
         = AmountAdd(chain_calculate_block_reward(ab_call.block.height),
                     BlockFees(ab_call.block, ledger))

\* C6: add_block checks the signature of every input of every transaction at
\* index >= 1 and of none at index 0: one invalid input signature rejects the
\* block without any change of the UTXO set, and a block is refused for a
\* signature only when such an input exists.
C6_SignaturesChecked ==
    [][/\ BadSignature(ab_call'.block) => Rejected
       /\ ab_call'.result = "InvalidSignature" => BadSignature(ab_call'.block)]_chain_vars

\* A block at the right height was refused for the signature of the second
\* input of its second transaction, the first input being valid; the coinbase
\* of every block carries an input without a valid signature.
C6_Witness ==
    /\ ab_call.result = "InvalidSignature"
    /\ ab_call.block.height = Len(chain) + 1
    /\ Len(ab_call.block.transactions) = 2
    /\ Len(ab_call.block.transactions[2].inputs) = 2
    /\ ab_call.block.transactions[2].inputs[1].signature = "valid"
    /\ ab_call.block.transactions[2].inputs[2].signature = "invalid"
    /\ ab_call.block.transactions[1].inputs[1].signature = "invalid"
    /\ ledger # << >>

\* C33: adjust_difficulty called with a height below last_adjustment_height +
\* adjustment_interval is a no-op for any list of samples, the empty one
\* included: it returns the current difficulty and leaves current_difficulty
\* and last_adjustment_height as they were.  last_adjustment_height changes
\* only when an adjustment is applied, and then becomes the given height.
C33_EarlyHeightIsNoOp ==
    [][cm_call'.op = "adjust_difficulty" =>
          /\ cm_call'.block_height < last_adjustment_height + AdjustmentInterval =>
                /\ cm_call'.result = "Ok"
                /\ cm_call'.value = current_difficulty
                /\ current_difficulty' = current_difficulty
                /\ last_adjustment_height' = last_adjustment_height
          /\ last_adjustment_height' # last_adjustment_height =>
                /\ cm_call'.block_height >= last_adjustment_height + AdjustmentInterval
                /\ cm_call'.samples >= AdjustmentInterval
                /\ cm_call'.result = "Ok"
                /\ cm_call'.value = current_difficulty'
                /\ last_adjustment_height' = cm_call'.block_height]_consensus_vars

\* C33 witness: after an adjustment, a call below the next adjustment height
\* with an empty list of samples returned the current difficulty.
C33_Witness ==
    /\ cm_call.op = "adjust_difficulty"
    /\ cm_call.samples = 0
    /\ last_adjustment_height > 0
    /\ cm_call.block_height < last_adjustment_height + AdjustmentInterval
    /\ cm_call.result = "Ok"
    /\ cm_call.value = current_difficulty

\* C34: when process_block triggers a retarget, the total handed to the
\* adjustment is the sum of exactly adjustment_interval block times, those
\* recorded since the previous retarget, at the first retarget and at every
\* later one.
C34_RetargetSumsOneInterval ==
    [][(/\ cm_call'.op = "process_block"
        /\ cm_call'.block_height = current_height + 1
        /\ cm_call'.block_height % AdjustmentInterval = 0)
          => LET times == Append(block_times, cm_call'.block_time)
             IN /\ Len(times) = AdjustmentInterval
                /\ SumSeq(times)
                     = SumSeq(SubSeq(times, Len(times) - AdjustmentInterval + 1,
                                     Len(times)))]_consensus_vars

\* C35: mine, when the whole nonce range is exhausted without a hash meeting
\* the target, increments extra_nonce and restarts the search from the start of
\* the range with the new extra_nonce instead of giving up: it does not return
\* None while a nonce of the range meets the target with the next extra_nonce.
C35_ExhaustionRestarts ==
    (pow_call.op = "mine" /\ pow_call.returned = <<>>) =>
        \A n \in miner.nonce_range[1]..miner.nonce_range[2] :
            ~meets_difficulty(compute_hash(pow_call.header, n,
                                           <<pow_call.extra_nonce + 1>>),
                              pow_call.target)

(***************************************************************************)
(* Properties of blockchain::merkle::MerkleTree (checked under SpecRoot)   *)
(***************************************************************************)
\* Node i (from 0) of level k (the leaves are level 0) of the tree over
\* leaves: the parent of nodes 2i and 2i + 1 of the level below, node 2i taken
\* twice when it is the last of its level.
RECURSIVE LevelCount(_, _)
LevelCount(n, k) == IF k = 0 THEN n ELSE (LevelCount(n, k - 1) + 1) \div 2

RECURSIVE NodeAt(_, _, _)
NodeAt(leaves, k, i) ==
    IF k = 0 THEN leaves[i + 1]
    ELSE LET below == LevelCount(Len(leaves), k - 1)
             right == IF 2 * i + 1 < below THEN 2 * i + 1 ELSE 2 * i
         IN <<"sha512", <<NodeAt(leaves, k - 1, 2 * i), NodeAt(leaves, k - 1, right)>>>>

\* the level that holds one node
Depth(n) == CHOOSE k \in 0..n : LevelCount(n, k) = 1 /\ \A j \in 0..(k - 1) : LevelCount(n, j) > 1

\* C36: the Merkle root over pre-hashed leaves is built level by level as
\* hash(left || right) of adjacent pairs, the last node of a level with an odd
\* count being duplicated: one leaf gives root = leaf, and three leaves
\* [a, b, c] give root = hash(hash(a || b) || hash(c || c)).
C36_RootByLevels ==
    (root_call.done /\ root_call.leaves # <<>>) =>
        LET l == root_call.leaves
            H(x, y) == <<"sha512", <<x, y>>>>
        IN /\ root_call.result = "Ok"
           /\ root_call.root = <<NodeAt(l, Depth(Len(l)), 0)>>
           /\ Len(l) = 1 => root_call.root = <<l[1]>>
           /\ Len(l) = 3 => root_call.root = <<H(H(l[1], l[2]), H(l[3], l[3]))>>

\* C36 witness: the root of three leaves [a, b, c] is
\* hash(hash(a || b) || hash(c || c)).
C36_Witness ==
    /\ root_call.done
    /\ root_call.leaves = <<PreHashed(1), PreHashed(2), PreHashed(1)>>
    /\ root_call.root = <<sha512_hash(<<sha512_hash(<<PreHashed(1), PreHashed(2)>>),
                                         sha512_hash(<<PreHashed(1), PreHashed(1)>>)>>)>>

(***************************************************************************)
(* Properties of the locks of the SyncManager (checked under SpecLocks)    *)
(***************************************************************************)
\* C37: the SyncManager never holds a lock across a suspension point: in
\* start_sync, discover_peers, fetch_headers, download_blocks and
\* download_block every guard on the sync state, the peer tables, the pending
\* queue and the requested set is released before the task reaches an await
\* on a sleep or a network wait.
C37_NoGuardAcrossAwait ==
    \A t \in Tasks :
        (lock_stack[t] # <<>> /\ Instruction(t).op = "await") => guards[t] = {}

\* C37 witness: the downloader is suspended at the sleep of download_block,
\* having inserted its hash under the write guard, while the caller of
\* start_sync holds the write guard on the state.
C37_Witness ==
    /\ lock_stack["downloader"] = << <<"download_block", 6>> >>
    /\ guards["downloader"] = {}
    /\ lock_stack["caller"] # <<>>
    /\ guards["caller"] = {<<"state", "write">>}

(***************************************************************************)
(* Properties of the wire framing (checked under SpecProto)                *)
(***************************************************************************)
\* C32: parse_message returns a decoded message only if the header's checksum
\* equals the hash of the payload and the payload is at most MAX_MESSAGE_SIZE
\* bytes; on a mismatch or an oversize payload it returns InvalidMessage
\* without decoding.  MessageHeader::new refuses a payload over
\* MAX_MESSAGE_SIZE and a command name over 12 bytes.
C32_FramingChecks ==
    /\ (proto_call.op = "parse_message" /\ proto_call.done) =>
          LET matches == proto_call.header.checksum = sha512_hash(proto_call.payload)
              fits == proto_call.payload.len <= 2 * 1024 * 1024
          IN /\ proto_call.result = "Ok" => (matches /\ fits)
             /\ ~(matches /\ fits) =>
                   /\ proto_call.result = "InvalidMessage"
                   /\ ~proto_call.decoded
                   /\ proto_call.returned = <<>>
    /\ (proto_call.op = "MessageHeader::new" /\ proto_call.done) =>
          ((proto_call.payload.len > 2 * 1024 * 1024 \/ Len(proto_call.command) > 12)
              => proto_call.result = "InvalidMessage")

\* C32 witness: a payload one byte over MAX_MESSAGE_SIZE that encodes a block
\* and whose checksum matches the header was refused without being decoded.
C32_Witness ==
    /\ proto_call.op = "parse_message"
    /\ proto_call.done
    /\ proto_call.payload = to_bytes(BlockMessage(2 * 1024 * 1024 + 1))
    /\ proto_call.header.checksum = sha512_hash(proto_call.payload)
    /\ proto_call.result = "InvalidMessage"
    /\ ~proto_call.decoded

====
